---- MODULE Spec2Model ----
(***************************************************************************)
(* Position lifecycle and portfolio valuation engine of portfolio-tracker  *)
(* (src/calculations.py, src/exchange_rate.py).                            *)
(*                                                                         *)
(* Numbers: quantities, prices, fees, cash and seeds are integers; every   *)
(* Python division is kept as an exact fraction [num, den] (floating-point *)
(* rounding is outside the model).  A division by zero is the value        *)
(* ZeroDivisionError.  Dates are day numbers.                              *)
(***************************************************************************)
EXTENDS Integers, Sequences, FiniteSets, TLC

(***************************************************************************)
(* Bounds of the model: the length of the freely chosen transaction lists  *)
(* and of the lists dated on consecutive days.                             *)
(***************************************************************************)
MaxTxns == 3
MaxDailyTxns == 4

Accounts == {"A1", "A2"}
Tickers == {"T1", "T2"}
NoFilter == "None"

(***************************************************************************)
(* Exact arithmetic.                                                       *)
(***************************************************************************)
ZeroDivisionError == [error |-> "ZeroDivisionError"]

Frac(n, d) == [num |-> n, den |-> d]

\* Python's a / b
Div(a, b) == IF b = 0 THEN ZeroDivisionError ELSE Frac(a, b)

IsFrac(x) == x # ZeroDivisionError

\* value equality of two fractions (denominators are non-zero)
FracEq(x, y) ==
    /\ IsFrac(x)
    /\ IsFrac(y)
    /\ IF x.den = y.den THEN x.num = y.num ELSE x.num * y.den = y.num * x.den

\* x + y and x - y on fractions; an error operand propagates
FracAdd(x, y) ==
    IF ~IsFrac(x) THEN x
    ELSE IF ~IsFrac(y) THEN y
    ELSE IF x.den = y.den THEN Frac(x.num + y.num, x.den)
    ELSE Frac((x.num * y.den) + (y.num * x.den), x.den * y.den)

FracSub(x, y) == FracAdd(x, IF IsFrac(y) THEN Frac(0 - y.num, y.den) ELSE y)

\* x >= 0 for a fraction
FracGeqZero(x) == IF x.den > 0 THEN x.num >= 0 ELSE x.num <= 0

\* x * k and x * 100 of the code, on a fraction
FracTimes(x, k) == IF IsFrac(x) THEN Frac(x.num * k, x.den) ELSE x

RECURSIVE SumSeq(_)
SumSeq(s) == IF s = <<>> THEN 0 ELSE Head(s) + SumSeq(Tail(s))

\* float values that are not numbers: a null of the store read into a numeric column,
\* and the results of a float division by zero
NaN == [nan |-> TRUE]
PosInf == [inf |-> "+"]
NegInf == [inf |-> "-"]

\* pd.isna(x), for a number or NaN
IsNaN(x) == ToString(x) = ToString(NaN)

\* a + b and a - b on numbers that may be NaN
NanAdd(a, b) == IF IsNaN(a) \/ IsNaN(b) THEN NaN ELSE a + b
NanSub(a, b) == IF IsNaN(a) \/ IsNaN(b) THEN NaN ELSE a - b

\* Python's sum() over numbers that may be NaN
RECURSIVE NanSumSeq(_)
NanSumSeq(s) == IF s = <<>> THEN 0 ELSE NanAdd(Head(s), NanSumSeq(Tail(s)))

\* column-wise map of a DataFrame / list
MapSeq(s, Op(_)) == [i \in 1..Len(s) |-> Op(s[i])]

(***************************************************************************)
(* Transactions (spec section 3; rows of the transactions table).          *)
(***************************************************************************)
TickerCurrency(ticker) == IF ticker = "T1" THEN "KRW" ELSE "USD"

Txn(acc, ticker, ty, d, price, q, fee) ==
    [account_id |-> acc, ticker |-> ticker, transaction_type |-> ty,
     transaction_date |-> d, trade_price |-> price, quantity |-> q,
     fee |-> fee, currency |-> TickerCurrency(ticker)]

TradeDates == {1, 2}
Quantities == {1, 2}

\* (price, fee) of a trade: a fee-less and a fee-bearing one
PriceFee == {<<1, 0>>, <<2, 1>>}

\* The pair (A1, T1) trades freely; the pairs (A1, T2) and (A2, T1) carry unit trades.
TxnUniverse ==
    {Txn("A1", "T1", ty, d, pf[1], q, pf[2]) :
        ty \in {"BUY", "SELL"}, d \in TradeDates, q \in Quantities, pf \in PriceFee}
    \cup {Txn("A1", "T2", ty, 1, 1, 1, 0) : ty \in {"BUY", "SELL"}}
    \cup {Txn("A2", "T1", ty, 1, 1, 1, 0) : ty \in {"BUY", "SELL"}}

\* transaction lists of up to MaxTxns rows, in any stored order
TxnLists == UNION {[1..n -> TxnUniverse] : n \in 0..MaxTxns}

\* One trade of (A1, T1) per day over MaxDailyTxns days, stored chronologically:
\* fee-less trades at price 1 or of free shares (price 0).
DailyTrade == {"BUY", "SELL"} \X Quantities \X {0, 1}

DailyLists ==
    {[i \in 1..MaxDailyTxns |-> Txn("A1", "T1", c[i][1], i, c[i][3], c[i][2], 0)] :
        c \in [1..MaxDailyTxns -> DailyTrade]}

\* The worked sequences of spec section 8, dated on consecutive days.
ScenarioRoundTrip ==
    <<Txn("A1", "T1", "BUY", 1, 100, 10, 0), Txn("A1", "T1", "SELL", 2, 120, 10, 0)>>
ScenarioReentry ==
    <<Txn("A1", "T1", "BUY", 1, 100, 10, 0), Txn("A1", "T1", "SELL", 2, 120, 10, 0),
      Txn("A1", "T1", "BUY", 3, 90, 5, 0), Txn("A1", "T1", "SELL", 4, 110, 5, 0)>>
ScenarioPartial ==
    <<Txn("A1", "T1", "BUY", 1, 100, 10, 0), Txn("A1", "T1", "SELL", 2, 120, 5, 0),
      Txn("A1", "T1", "BUY", 3, 90, 5, 0), Txn("A1", "T1", "SELL", 4, 110, 10, 0)>>

Reverse(s) == [i \in 1..Len(s) |-> s[Len(s) + 1 - i]]

\* stored chronologically, or newest first as the store returns them
Scenarios ==
    {ScenarioRoundTrip, ScenarioReentry, ScenarioPartial,
     Reverse(ScenarioRoundTrip), Reverse(ScenarioReentry), Reverse(ScenarioPartial)}

VARIABLES
    transactions_df,        \* the transaction list handed to the engine
    account_id,             \* the optional account filter (NoFilter = None)
    pc,                     \* position of the page computation
    holdings,               \* result of calculate_holdings
    group_keys,             \* calculate_closed_positions: groups still to iterate, in order
    sorted_txns,            \* the current group, sorted by date
    idx,                    \* rows of sorted_txns already processed
    position_open,
    current_position,       \* [buy_txns, sell_txns, first_date]
    running_qty,
    closed_positions_list,
    exchange_rate,          \* show_overview_page: the USD/KRW rate of the page load
    account_inputs,         \* holdings, prices, cash and seeds of the account last valued
    accounts_metrics,       \* the per-account metrics gathered so far
    aggregate,              \* result of calculate_aggregate_metrics
    both_currencies,        \* result of get_total_value_in_both_currencies
    price_cache,            \* show_account_page: the usable rows of the stock_prices table
    cash_balance,           \* the two results of calculate_cash_balance
    seed_money,             \* the account's initial seed money per currency
    price_lookup,           \* current_prices: the price lookup of the page
    price_warnings,         \* tickers for which st.warning was emitted
    metrics,                \* result of calculate_portfolio_metrics
    holdings_with_prices,   \* result of add_current_prices_to_holdings
    closed_positions_df,    \* the closed positions handed to calculate_win_rate
    win_stats,              \* result of calculate_win_rate
    market_indices,         \* show_statistics_page: rows of the market_indices table
    portfolio_snapshots,    \* rows of the portfolio_snapshots table
    aggregate_history,      \* rows of get_aggregate_portfolio_history
    normalized_data,        \* the points handed to the chart
    market_data,            \* get_market_today: the entries gathered so far
    feed_requests,          \* requests made to the market-data feed, in order
    rate_cache,             \* the cached result of get_usd_krw_rate (ttl 60 s)
    index_feed,             \* backfill script: what the feed answers for the four tickers
    dry_run,                \* the --dry-run flag
    upsert_rule,            \* how the store's upsert procedure combines new and stored cells
    series_data,            \* the four frames of fetch_historical_index
    merged,                 \* the merged frame without its weekend rows
    upsert_calls,           \* the upsert_market_indices calls made, in order
    stats,                  \* the counters the run returns
    stored_indices,         \* the market_indices table, by snapshot date
    run,                    \* which run of the script this is
    first_run_indices,      \* the table as the first run left it
    clock,                  \* st.cache_data: seconds since the server started
    market_feed,            \* whether the feed answers at this moment, and its quote
    data_cache,             \* the entries of st.cache_data, by function and arguments
    cached_calls,           \* the calls of cached functions made, in order
    sort_log,               \* the order sort_values gave each group sorted so far
    previous_call           \* the filter and the two results of the call made before

engine_vars == <<transactions_df, account_id, pc, holdings, group_keys, sorted_txns, idx,
                 position_open, current_position, running_qty, closed_positions_list>>

\* the engine's state without the position of the computation
engine_vars_but_pc == <<transactions_df, account_id, holdings, group_keys, sorted_txns, idx,
                        position_open, current_position, running_qty, closed_positions_list>>

metrics_vars == <<exchange_rate, account_inputs, accounts_metrics, aggregate, both_currencies>>

page_vars == <<price_cache, cash_balance, seed_money, price_lookup, price_warnings, metrics,
               holdings_with_prices>>

stats_vars == <<closed_positions_df, win_stats>>

chart_vars == <<market_indices, portfolio_snapshots, aggregate_history, normalized_data>>

market_vars == <<market_data, feed_requests, rate_cache>>

\* the state of the offline script and of the caches
backfill_vars == <<index_feed, dry_run, upsert_rule, series_data, merged, upsert_calls, stats,
                   stored_indices, run, first_run_indices>>

cache_vars == <<clock, market_feed, data_cache, cached_calls>>

\* what is kept of one call of the engine when it is called again on the same frame
call_vars == <<sort_log, previous_call>>

script_vars == <<backfill_vars, cache_vars, call_vars>>

\* the state of the views a computation does not touch
view_vars == <<page_vars, stats_vars, chart_vars, market_vars, script_vars>>

vars == <<engine_vars, metrics_vars, view_vars>>

(***************************************************************************)
(* DataFrame helpers.                                                      *)
(***************************************************************************)
\* variant of the selection below that keeps the rows of every account
FilterAccount_All(df, acc) == df

\* transactions_df[transactions_df['account_id'] == account_id]
FilterAccount(df, acc) ==
    IF acc # NoFilter THEN SelectSeq(df, LAMBDA t : t.account_id = acc) ELSE df

\* keys of df.groupby(group_keys) after unpacking (acc_id, ticker), in groupby's sorted order
AllKeys == <<<<"A1", "T1">>, <<"A1", "T2">>, <<"A2", "T1">>, <<"A2", "T2">>>>

GroupKeys(df, acc) ==
    IF acc # NoFilter
    THEN SelectSeq(AllKeys, LAMBDA k : k[1] = acc /\ \E i \in 1..Len(df) : df[i].ticker = k[2])
    ELSE SelectSeq(AllKeys, LAMBDA k : \E i \in 1..Len(df) :
                                          df[i].account_id = k[1] /\ df[i].ticker = k[2])

\* the rows of one group, in the frame's row order
Group(df, acc, key) ==
    IF acc # NoFilter
    THEN SelectSeq(df, LAMBDA t : t.ticker = key[2])
    ELSE SelectSeq(df, LAMBDA t : t.account_id = key[1] /\ t.ticker = key[2])

(***************************************************************************)
(* calculate_holdings (src/calculations.py:10-109).                        *)
(***************************************************************************)
Absent == "absent"

\* variant of the selection below that keeps only the buys stored after the group's last sell
BuyRows_AfterLastSell(group) ==
    LET sells == {i \in 1..Len(group) : group[i].transaction_type = "SELL"}
        last == IF sells = {} THEN 0 ELSE CHOOSE i \in sells : \A j \in sells : j <= i
    IN  SelectSeq(SubSeq(group, last + 1, Len(group)), LAMBDA t : t.transaction_type = "BUY")

\* line 55: group[group['transaction_type'] == 'BUY'], every buy of the group
BuyRows(group) == SelectSeq(group, LAMBDA t : t.transaction_type = "BUY")
SellRows(group) == SelectSeq(group, LAMBDA t : t.transaction_type = "SELL")

\* rows['quantity'].sum() if not rows.empty else 0
QuantitySum(rows) == IF rows = <<>> THEN 0 ELSE SumSeq(MapSeq(rows, LAMBDA t : t.quantity))

\* variant of the difference below with the two sums exchanged
CurrentQty_Swapped(group) == QuantitySum(SellRows(group)) - QuantitySum(BuyRows(group))

CurrentQty(group) == QuantitySum(BuyRows(group)) - QuantitySum(SellRows(group))

\* variant of the sum below that leaves the fee out of the cost
TotalBuyCost_NoFee(buy_txns) ==
    IF buy_txns = <<>> THEN 0
    ELSE SumSeq(MapSeq(buy_txns, LAMBDA t : t.trade_price * t.quantity))

\* the fee cell of a row: NaN when the store holds null (the row then has no fee field)
Fee(t) == IF "fee" \in DOMAIN t THEN t.fee ELSE NaN

\* fee.fillna(0), one row
FeeFillNa(t) == IF IsNaN(Fee(t)) THEN 0 ELSE Fee(t)

\* ((trade_price * quantity) + fee.fillna(0)).sum() if not buy_txns.empty else 0
TotalBuyCost(buy_txns) ==
    IF buy_txns = <<>> THEN 0
    ELSE SumSeq(MapSeq(buy_txns, LAMBDA t : (t.trade_price * t.quantity) + FeeFillNa(t)))

\* total_buy_cost / total_buy_qty if total_buy_qty > 0 else 0
AvgPrice(total_buy_cost, total_buy_qty) ==
    IF total_buy_qty > 0 THEN Div(total_buy_cost, total_buy_qty) ELSE Frac(0, 1)

TotalCostBasis(avg_price, current_qty) == FracTimes(avg_price, current_qty)

\* variant of the test below that also admits a net quantity of zero
IsHeld_NonNegative(group) == CurrentQty(group) >= 0

\* the 'if current_qty > 0' test that admits a group to the holdings
IsHeld(group) == CurrentQty(group) > 0

HoldingRecord(group, acc_id, acc) ==
    LET avg_price == AvgPrice(TotalBuyCost(BuyRows(group)), QuantitySum(BuyRows(group)))
    IN  [quantity |-> CurrentQty(group),
         avg_price |-> avg_price,
         currency |-> group[1].currency,
         total_cost_basis |-> TotalCostBasis(avg_price, CurrentQty(group)),
         account_id |-> IF acc = NoFilter THEN acc_id ELSE Absent]

\* holding_key = (acc_id, ticker) if not account_id else ticker
HoldingKey(key, acc) == IF acc = NoFilter THEN key ELSE key[2]

calculate_holdings(df, acc) ==
    IF df = <<>> THEN <<>>
    ELSE LET fdf == FilterAccount(df, acc)
             keys == GroupKeys(fdf, acc)
             held == {i \in 1..Len(keys) : IsHeld(Group(fdf, acc, keys[i]))}
         IN  [hk \in {HoldingKey(keys[i], acc) : i \in held} |->
                 LET i == CHOOSE j \in held : HoldingKey(keys[j], acc) = hk
                 IN  HoldingRecord(Group(fdf, acc, keys[i]), keys[i][1], acc)]

(***************************************************************************)
(* _create_closed_record (src/calculations.py:375-430).                    *)
(***************************************************************************)
\* txn.get('fee', 0): the fee column exists, so a null fee comes back as NaN, not as 0
\* line 399: sum((trade_price * quantity) + txn.get('fee', 0) ...)
BuyCost(buy_txns) ==
    NanSumSeq(MapSeq(buy_txns, LAMBDA t : NanAdd(t.trade_price * t.quantity, Fee(t))))

\* variant of the sum below that adds the sell fee instead of deducting it
SellRevenue_FeeAdded(sell_txns) ==
    NanSumSeq(MapSeq(sell_txns, LAMBDA t : NanAdd(t.trade_price * t.quantity, Fee(t))))

\* line 401: sum((trade_price * quantity) - txn.get('fee', 0) ...)
SellRevenue(sell_txns) ==
    NanSumSeq(MapSeq(sell_txns, LAMBDA t : NanSub(t.trade_price * t.quantity, Fee(t))))

\* x > 0 on a number that may be NaN (a comparison with NaN is False)
GtZero(x) == ~IsNaN(x) /\ x > 0

\* variant of the return below that leaves out the factor 100
RealizedReturnPct_Ratio(realized_pl, buy_cost) ==
    IF GtZero(buy_cost)
    THEN IF IsNaN(realized_pl) THEN NaN ELSE Div(realized_pl, buy_cost)
    ELSE Frac(0, 1)

\* (realized_pl / buy_cost * 100) if buy_cost > 0 else 0
RealizedReturnPct(realized_pl, buy_cost) ==
    IF GtZero(buy_cost)
    THEN IF IsNaN(realized_pl) THEN NaN ELSE FracTimes(Div(realized_pl, buy_cost), 100)
    ELSE Frac(0, 1)

\* 'Win' if realized_return_pct >= 0 else 'Loss'
ResultLabel(realized_return_pct) ==
    IF realized_return_pct # NaN /\ FracGeqZero(realized_return_pct) THEN "Win" ELSE "Loss"

\* variant of the period below that counts both end days
HoldingDays_Inclusive(last_date, first_date) == (last_date - first_date) + 1

\* line 409: (last_date - position['first_date']).days
HoldingDays(last_date, first_date) == last_date - first_date

create_closed_record(position, last_date, ticker, acc_id, metadata, account_id_filter) ==
    LET buy_cost == BuyCost(position.buy_txns)
        sell_revenue == SellRevenue(position.sell_txns)
        total_qty == SumSeq(MapSeq(position.buy_txns, LAMBDA t : t.quantity))
        realized_pl == NanSub(sell_revenue, buy_cost)
        realized_return_pct == RealizedReturnPct(realized_pl, buy_cost)
    IN  [ticker |-> ticker,
         currency |-> metadata.currency,
         total_shares_traded |-> total_qty,
         realized_pl |-> realized_pl,
         realized_return_pct |-> realized_return_pct,
         result |-> ResultLabel(realized_return_pct),
         first_trade_date |-> position.first_date,
         last_trade_date |-> last_date,
         holding_period_days |-> HoldingDays(last_date, position.first_date),
         account_id |-> IF account_id_filter = NoFilter THEN acc_id ELSE Absent]

(***************************************************************************)
(* calculate_closed_positions (src/calculations.py:265-372), one step per  *)
(* group and per processed row.                                            *)
(***************************************************************************)
NoDate == 0

NoValue == [none |-> TRUE]

EmptyPosition == [buy_txns |-> <<>>, sell_txns |-> <<>>, first_date |-> NoDate]

IsSortedByDate(s) ==
    \A i \in 1..Len(s) - 1 : s[i].transaction_date <= s[i + 1].transaction_date

IndexPermutations(n) == {p \in [1..n -> 1..n] : \A i, j \in 1..n : p[i] = p[j] => i = j}

\* group.sort_values('transaction_date'): the default kind is quicksort, which
\* does not promise the relative order of rows with equal dates
SortValues(group) ==
    {s \in {[i \in 1..Len(group) |-> group[p[i]]] : p \in IndexPermutations(Len(group))} :
        IsSortedByDate(s)}

\* sort_values is a function of its input: rows it has sorted before come back in the
\* order it gave them then, whichever order that was
SortOutcome(log, group) ==
    IF \E e \in log : e[1] = group
    THEN {e[2] : e \in {d \in log : d[1] = group}}
    ELSE SortValues(group)

\* the views that take no part in a computation stay in their initial state
IdleExcept(views) ==
    /\ IF "engine" \in views THEN TRUE
       ELSE /\ holdings = <<>>
            /\ group_keys = <<>>
            /\ sorted_txns = <<>>
            /\ idx = 0
            /\ position_open = FALSE
            /\ current_position = EmptyPosition
            /\ running_qty = 0
            /\ closed_positions_list = <<>>
    /\ IF "metrics" \in views THEN TRUE
       ELSE /\ exchange_rate = 0
            /\ account_inputs = NoValue
            /\ accounts_metrics = <<>>
            /\ aggregate = NoValue
            /\ both_currencies = NoValue
    /\ IF "page" \in views THEN TRUE
       ELSE /\ price_cache = <<>>
            /\ cash_balance = NoValue
            /\ seed_money = NoValue
            /\ price_lookup = <<>>
            /\ price_warnings = <<>>
            /\ metrics = NoValue
            /\ holdings_with_prices = <<>>
    /\ IF "stats" \in views THEN TRUE
       ELSE /\ closed_positions_df = <<>>
            /\ win_stats = NoValue
    /\ IF "chart" \in views THEN TRUE
       ELSE /\ market_indices = <<>>
            /\ portfolio_snapshots = <<>>
            /\ aggregate_history = <<>>
            /\ normalized_data = <<>>
    /\ IF "market" \in views THEN TRUE
       ELSE /\ market_data = <<>>
            /\ feed_requests = <<>>
            /\ rate_cache = <<>>
    /\ IF "backfill" \in views THEN TRUE
       ELSE /\ index_feed = NoValue
            /\ dry_run = FALSE
            /\ upsert_rule = "none"
            /\ series_data = NoValue
            /\ merged = <<>>
            /\ upsert_calls = <<>>
            /\ stats = NoValue
            /\ stored_indices = <<>>
            /\ run = 0
            /\ first_run_indices = <<>>
    /\ IF "cache" \in views THEN TRUE
       ELSE /\ clock = 0
            /\ market_feed = NoValue
            /\ data_cache = <<>>
            /\ cached_calls = <<>>
    /\ IF "calls" \in views THEN TRUE
       ELSE /\ sort_log = {}
            /\ previous_call = NoValue

Init ==
    /\ transactions_df \in TxnLists \cup DailyLists \cup Scenarios
    /\ account_id \in {NoFilter, "A1"}
    /\ pc = "holdings"
    /\ holdings = <<>>
    /\ group_keys = <<>>
    /\ sorted_txns = <<>>
    /\ idx = 0
    /\ position_open = FALSE
    /\ current_position = EmptyPosition
    /\ running_qty = 0
    /\ closed_positions_list = <<>>
    /\ exchange_rate = 0
    /\ account_inputs = NoValue
    /\ accounts_metrics = <<>>
    /\ aggregate = NoValue
    /\ both_currencies = NoValue
    /\ IdleExcept({"engine", "metrics"})

\* variant in which the filtered frame replaces the frame the caller passed
CallerFrame_Aliased(caller_df, local_df) == local_df

\* lines 33-34 and 299-300: transactions_df = transactions_df[...].copy() binds the
\* local name to a new frame; line 319 assigns the converted date column on the
\* group that groupby split off.  The frame the caller passed keeps its rows.
CallerFrame(caller_df, local_df) == caller_df

CalculateHoldings ==
    /\ pc = "holdings"
    /\ holdings' = calculate_holdings(transactions_df, account_id)
    /\ transactions_df' = CallerFrame(transactions_df, FilterAccount(transactions_df, account_id))
    /\ pc' = "closed"
    /\ UNCHANGED <<metrics_vars, view_vars, account_id, group_keys, sorted_txns, idx,
                   position_open, current_position, running_qty, closed_positions_list>>

\* lines 295-310: the empty check, the account filter and the groupby
BeginClosedPositions ==
    /\ pc = "closed"
    /\ closed_positions_list' = <<>>
    /\ IF transactions_df = <<>>
       THEN /\ pc' = "done"
            /\ group_keys' = <<>>
       ELSE /\ pc' = "group"
            /\ group_keys' = GroupKeys(FilterAccount(transactions_df, account_id), account_id)
    /\ transactions_df' = CallerFrame(transactions_df, FilterAccount(transactions_df, account_id))
    /\ UNCHANGED <<metrics_vars, view_vars, account_id, holdings, sorted_txns, idx,
                   position_open, current_position, running_qty>>

\* lines 310-329: enter the next group, sort it, reset the tracking variables
NextGroup ==
    /\ pc = "group"
    /\ group_keys # <<>>
    /\ LET group == Group(FilterAccount(transactions_df, account_id), account_id,
                          Head(group_keys))
       IN  /\ sorted_txns' \in SortOutcome(sort_log, group)
           /\ sort_log' = sort_log \cup {<<group, sorted_txns'>>}
    /\ idx' = 0
    /\ position_open' = FALSE
    /\ current_position' = EmptyPosition
    /\ running_qty' = 0
    /\ pc' = "txn"
    /\ UNCHANGED <<metrics_vars, page_vars, stats_vars, chart_vars, market_vars, backfill_vars,
                   cache_vars, previous_call, transactions_df, account_id, holdings,
                   group_keys, closed_positions_list>>

\* lines 333-340
ProcessBuy ==
    /\ pc = "txn"
    /\ idx < Len(sorted_txns)
    /\ LET txn == sorted_txns[idx + 1]
       IN  /\ txn.transaction_type = "BUY"
           /\ position_open' = TRUE
           /\ current_position' =
                 [current_position EXCEPT
                    !.first_date = IF ~position_open THEN txn.transaction_date ELSE @,
                    !.buy_txns = Append(@, txn)]
           /\ running_qty' = running_qty + txn.quantity
    /\ idx' = idx + 1
    /\ UNCHANGED <<metrics_vars, view_vars, transactions_df, account_id, pc, holdings, group_keys, sorted_txns,
                   closed_positions_list>>

\* variant of the test below that also closes an oversold position
ClosesPosition_Oversold(qty, open) == qty <= 0 /\ open

\* line 347: running_qty == 0 and position_open
ClosesPosition(qty, open) == qty = 0 /\ open

\* lines 342-365
ProcessSell ==
    /\ pc = "txn"
    /\ idx < Len(sorted_txns)
    /\ LET txn == sorted_txns[idx + 1]
           position == [current_position EXCEPT !.sell_txns = Append(@, txn)]
           qty == running_qty - txn.quantity
       IN  /\ txn.transaction_type = "SELL"
           /\ running_qty' = qty
           /\ IF ClosesPosition(qty, position_open)
              THEN /\ closed_positions_list' =
                         Append(closed_positions_list,
                                create_closed_record(position, txn.transaction_date,
                                                     Head(group_keys)[2], Head(group_keys)[1],
                                                     sorted_txns[1], account_id))
                   /\ position_open' = FALSE
                   /\ current_position' = EmptyPosition
              ELSE /\ current_position' = position
                   /\ UNCHANGED <<position_open, closed_positions_list>>
    /\ idx' = idx + 1
    /\ UNCHANGED <<metrics_vars, view_vars, transactions_df, account_id, pc, holdings, group_keys, sorted_txns>>

\* the inner loop is exhausted: back to the groupby loop
EndGroup ==
    /\ pc = "txn"
    /\ idx = Len(sorted_txns)
    /\ group_keys' = Tail(group_keys)
    /\ pc' = "group"
    /\ UNCHANGED <<metrics_vars, view_vars, transactions_df, account_id, holdings, sorted_txns, idx,
                   position_open, current_position, running_qty, closed_positions_list>>

\* lines 367-372: the groupby loop is exhausted
ReturnClosedPositions ==
    /\ pc = "group"
    /\ group_keys = <<>>
    /\ pc' = "done"
    /\ UNCHANGED <<metrics_vars, view_vars, transactions_df, account_id, holdings, group_keys, sorted_txns, idx,
                   position_open, current_position, running_qty, closed_positions_list>>

Next ==
    \/ CalculateHoldings
    \/ BeginClosedPositions
    \/ NextGroup
    \/ ProcessBuy
    \/ ProcessSell
    \/ EndGroup
    \/ ReturnClosedPositions

Spec == Init /\ [][Next]_vars

(***************************************************************************)
(* Reference quantities of the claims, taken directly over the input list  *)
(* and over the processed order, independently of the engine's grouping    *)
(* and tracking variables.                                                 *)
(***************************************************************************)
SignedQty(t) == IF t.transaction_type = "BUY" THEN t.quantity ELSE 0 - t.quantity

\* sum(BUY quantity) - sum(SELL quantity) of a pair over a transaction list
RECURSIVE NetQty(_, _, _)
NetQty(df, acc, tk) ==
    IF df = <<>> THEN 0
    ELSE (IF Head(df).account_id = acc /\ Head(df).ticker = tk THEN SignedQty(Head(df)) ELSE 0)
         + NetQty(Tail(df), acc, tk)

PairHas(df, acc, tk, ty) ==
    \E i \in 1..Len(df) :
        df[i].account_id = acc /\ df[i].ticker = tk /\ df[i].transaction_type = ty

InScope(acc) == account_id = NoFilter \/ account_id = acc

HoldingsComputed == pc # "holdings"

\* with an account filter the holdings are keyed by ticker and belong to that account
Held(acc, tk) == InScope(acc) /\ HoldingKey(<<acc, tk>>, account_id) \in DOMAIN holdings

HoldingOf(acc, tk) == holdings[HoldingKey(<<acc, tk>>, account_id)]

\* running quantity after the first k rows of the processed order
RECURSIVE PrefixQty(_, _)
PrefixQty(s, k) == IF k = 0 THEN 0 ELSE PrefixQty(s, k - 1) + SignedQty(s[k])

\* the instants (row numbers) among the first k at which the running quantity is zero
ZeroInstants(s, k) == {i \in 1..k : PrefixQty(s, i) = 0}

\* the instants among the first k at which a SELL brings the running quantity to zero
SellZeroInstants(s, k) ==
    {i \in 1..k : s[i].transaction_type = "SELL" /\ PrefixQty(s, i) = 0}

MaxOf(S) == IF S = {} THEN 0 ELSE CHOOSE x \in S : \A y \in S : y <= x

\* the records emitted so far for the group being processed
GroupRecords ==
    SelectSeq(closed_positions_list,
              LAMBDA r : r.ticker = Head(group_keys)[2]
                         /\ (account_id = NoFilter => r.account_id = Head(group_keys)[1]))

InGroupLoop == pc = "txn"

GroupFinished == pc = "txn" /\ idx = Len(sorted_txns)

(***************************************************************************)
(* C1.  For every transaction set and every (account, ticker) pair,        *)
(* calculate_holdings reports a holding for the pair iff                   *)
(* sum(BUY quantity) - sum(SELL quantity) > 0, the reported quantity is    *)
(* that difference, and a pair with SELL rows but no BUY row yields no     *)
(* holding and no error.                                                   *)
(***************************************************************************)
C1_HoldingIffNetPositive ==
    HoldingsComputed =>
        /\ \A acc \in Accounts, tk \in Tickers :
              /\ Held(acc, tk) <=> (InScope(acc) /\ NetQty(transactions_df, acc, tk) > 0)
              /\ Held(acc, tk) => HoldingOf(acc, tk).quantity = NetQty(transactions_df, acc, tk)
              /\ (PairHas(transactions_df, acc, tk, "SELL")
                  /\ ~PairHas(transactions_df, acc, tk, "BUY")) => ~Held(acc, tk)
        /\ \A hk \in DOMAIN holdings :
              IsFrac(holdings[hk].avg_price) /\ IsFrac(holdings[hk].total_cost_basis)

\* a holding is reported next to a pair that only has SELL rows
C1_Witness ==
    /\ HoldingsComputed
    /\ Held("A1", "T1")
    /\ HoldingOf("A1", "T1").quantity = 1
    /\ PairHas(transactions_df, "A1", "T2", "SELL")
    /\ ~PairHas(transactions_df, "A1", "T2", "BUY")

\* the close instants among the first k rows, in ascending order
CloseSeq(s, k) == SelectSeq([i \in 1..k |-> i], LAMBDA i : i \in SellZeroInstants(s, k))

\* the close instant before the j-th one (0 before the first)
PrevClose(s, k, j) == IF j = 1 THEN 0 ELSE CloseSeq(s, k)[j - 1]

\* sell proceeds net of fees minus buy cost plus fees, over rows lo+1..hi
CashFlow(t) ==
    IF t.transaction_type = "SELL"
    THEN (t.trade_price * t.quantity) - t.fee
    ELSE 0 - ((t.trade_price * t.quantity) + t.fee)

RECURSIVE EpisodePL(_, _, _)
EpisodePL(s, lo, hi) == IF hi <= lo THEN 0 ELSE EpisodePL(s, lo, hi - 1) + CashFlow(s[hi])

RECURSIVE EpisodeBuyCost(_, _, _)
EpisodeBuyCost(s, lo, hi) ==
    IF hi <= lo THEN 0
    ELSE EpisodeBuyCost(s, lo, hi - 1)
         + (IF s[hi].transaction_type = "BUY"
            THEN (s[hi].trade_price * s[hi].quantity) + s[hi].fee ELSE 0)

RECURSIVE EpisodeBuyQty(_, _, _)
EpisodeBuyQty(s, lo, hi) ==
    IF hi <= lo THEN 0
    ELSE EpisodeBuyQty(s, lo, hi - 1)
         + (IF s[hi].transaction_type = "BUY" THEN s[hi].quantity ELSE 0)

\* the row just processed is the first BUY after the close instant c
FirstBuyAfter(c) ==
    /\ c >= 1
    /\ idx > c
    /\ sorted_txns[idx].transaction_type = "BUY"
    /\ \A i \in (c + 1)..(idx - 1) : sorted_txns[i].transaction_type = "SELL"

\* ... and it has started a fresh episode
FreshEpisode ==
    /\ position_open
    /\ current_position.first_date = sorted_txns[idx].transaction_date
    /\ current_position.buy_txns = <<sorted_txns[idx]>>

IsScenario(sc) == transactions_df \in {sc, Reverse(sc)}

PartialScenarioOneRecord ==
    (pc = "done" /\ IsScenario(ScenarioPartial)) =>
        /\ Len(closed_positions_list) = 1
        /\ closed_positions_list[1].realized_pl = 250
        /\ closed_positions_list[1].total_shares_traded = 15
        /\ closed_positions_list[1].first_trade_date = 1
        /\ closed_positions_list[1].last_trade_date = 4

RECURSIVE PairBuyCost(_, _, _)
PairBuyCost(df, acc, tk) ==
    IF df = <<>> THEN 0
    ELSE (IF Head(df).account_id = acc /\ Head(df).ticker = tk
             /\ Head(df).transaction_type = "BUY"
          THEN (Head(df).trade_price * Head(df).quantity) + Head(df).fee ELSE 0)
         + PairBuyCost(Tail(df), acc, tk)

RECURSIVE PairBuyQty(_, _, _)
PairBuyQty(df, acc, tk) ==
    IF df = <<>> THEN 0
    ELSE (IF Head(df).account_id = acc /\ Head(df).ticker = tk
             /\ Head(df).transaction_type = "BUY"
          THEN Head(df).quantity ELSE 0)
         + PairBuyQty(Tail(df), acc, tk)

\* the list with row t inserted after its first k rows
InsertAt(df, k, t) == SubSeq(df, 1, k) \o <<t>> \o SubSeq(df, k + 1, Len(df))

SellsOf(acc, tk) ==
    {t \in TxnUniverse : t.account_id = acc /\ t.ticker = tk /\ t.transaction_type = "SELL"}

HoldingsPositive ==
    HoldingsComputed =>
        /\ \A hk \in DOMAIN holdings : holdings[hk].quantity > 0
        /\ \A acc \in Accounts, tk \in Tickers :
              NetQty(transactions_df, acc, tk) <= 0 => ~Held(acc, tk)

C5_WitnessHeld ==
    /\ GroupFinished
    /\ PrefixQty(sorted_txns, idx) = 0
    /\ sorted_txns[idx].transaction_type = "SELL"
    /\ Len(GroupRecords) = 1
    /\ DOMAIN holdings # {}

(***************************************************************************)
(* C6.  Transactions of one pair that share a date are processed in their  *)
(* stored relative order (the date sort is stable).                        *)
(***************************************************************************)
\* the one date-sorted arrangement that keeps rows of equal date in their stored order
StableSortValues(group) ==
    {[i \in 1..Len(group) |-> group[p[i]]] :
        p \in {q \in IndexPermutations(Len(group)) :
                 \A i, j \in 1..Len(group) :
                    i < j => \/ group[q[i]].transaction_date < group[q[j]].transaction_date
                             \/ /\ group[q[i]].transaction_date = group[q[j]].transaction_date
                                /\ q[i] < q[j]}}

CurrentGroup ==
    Group(FilterAccount(transactions_df, account_id), account_id, Head(group_keys))

C6_SameDateStoredOrder ==
    InGroupLoop => sorted_txns \in StableSortValues(CurrentGroup)

(***************************************************************************)
(* C7.  For every closed-position record, realized_return_pct is realized  *)
(* P&L / buy cost * 100, and result is "Win" when realized_return_pct >= 0 *)
(* and "Loss" otherwise; buy 10 @ 100 -> sell 10 @ 120 without fees yields *)
(* exactly one record with realized P&L 200 and result "Win".              *)
(***************************************************************************)
C7_ReturnAndResult ==
    /\ InGroupLoop =>
          \A j \in 1..Len(GroupRecords) :
              LET r == GroupRecords[j]
                  buy_cost == EpisodeBuyCost(sorted_txns, PrevClose(sorted_txns, idx, j),
                                             CloseSeq(sorted_txns, idx)[j])
              IN  /\ buy_cost # 0 =>
                         FracEq(r.realized_return_pct, Frac(r.realized_pl * 100, buy_cost))
                  /\ r.result \in {"Win", "Loss"}
                  /\ r.result = "Win" <=> FracGeqZero(r.realized_return_pct)
    /\ (pc = "done" /\ IsScenario(ScenarioRoundTrip)) =>
          /\ Len(closed_positions_list) = 1
          /\ closed_positions_list[1].realized_pl = 200
          /\ closed_positions_list[1].realized_return_pct = Frac(20000, 1000)
          /\ closed_positions_list[1].result = "Win"

\* a losing record and, before it, a record that breaks even
C7_Witness ==
    /\ InGroupLoop
    /\ Len(GroupRecords) = 2
    /\ GroupRecords[1].realized_pl = 0
    /\ GroupRecords[1].result = "Win"
    /\ GroupRecords[2].realized_pl < 0
    /\ GroupRecords[2].result = "Loss"

FirstBuyIn(s, lo, hi) ==
    CHOOSE i \in (lo + 1)..hi :
        /\ s[i].transaction_type = "BUY"
        /\ \A k \in (lo + 1)..(i - 1) : s[k].transaction_type = "SELL"

C14_WitnessRoundTrip ==
    /\ InGroupLoop
    /\ IsScenario(ScenarioRoundTrip)
    /\ Len(GroupRecords) = 1
    /\ GroupRecords[1].holding_period_days = 1

(***************************************************************************)
(* Transactions whose fee is null in the store.  The frame built from the  *)
(* store's rows holds NaN for a null fee as long as another row carries a  *)
(* number, so every list below has at least one row with a fee.            *)
(***************************************************************************)
MaxFeeTxns == 3

\* the row t with a null fee
NullFee(t) == [f \in DOMAIN t \ {"fee"} |-> t[f]]

\* lists of buys on day 1 and sells on day 2, with and without a fee; the fee column of a
\* frame is numeric, so at least one row has a fee
MissingFeeLists ==
    LET rows ==
            {Txn("A1", "T1", "BUY", 1, 1, q, 0) : q \in Quantities}
            \cup {NullFee(Txn("A1", "T1", "BUY", 1, 1, q, 0)) : q \in Quantities}
            \cup {Txn("A1", "T1", "SELL", 2, 2, q, fee) : q \in Quantities, fee \in {0, 1}}
            \cup {NullFee(Txn("A1", "T1", "SELL", 2, 2, q, 0)) : q \in Quantities}
    IN {df \in UNION {[1..n -> rows] : n \in 1..MaxFeeTxns} :
           \E i \in 1..Len(df) : ~IsNaN(Fee(df[i]))}

MissingFeeInit ==
    /\ transactions_df \in MissingFeeLists
    /\ account_id \in {NoFilter, "A1"}
    /\ pc = "holdings"
    /\ IdleExcept({})

SpecMissingFee == MissingFeeInit /\ [][Next]_vars

(***************************************************************************)
(* C15.  A transaction whose fee is missing is treated as having fee 0 in  *)
(* both calculate_holdings (average cost) and calculate_closed_positions   *)
(* (realized P&L): every result equals the one obtained with an explicit   *)
(* fee of 0 in place of the missing fee.                                   *)
(***************************************************************************)
\* the same rows with every missing fee written as 0
FeesFilled(df) ==
    [i \in 1..Len(df) |->
        IF IsNaN(Fee(df[i])) THEN [f \in DOMAIN df[i] \cup {"fee"} |->
                                      IF f = "fee" THEN 0 ELSE df[i][f]]
        ELSE df[i]]

C15_MissingFeeIsZero ==
    /\ HoldingsComputed =>
          holdings = calculate_holdings(FeesFilled(transactions_df), account_id)
    /\ InGroupLoop =>
          \A j \in 1..Len(GroupRecords) :
              LET c == CloseSeq(sorted_txns, idx)[j]
                  lo == PrevClose(sorted_txns, idx, j)
                  pl == EpisodePL(FeesFilled(sorted_txns), lo, c)
                  cost == EpisodeBuyCost(FeesFilled(sorted_txns), lo, c)
              IN  /\ ~IsNaN(GroupRecords[j].realized_pl)
                  /\ GroupRecords[j].realized_pl = pl
                  /\ GroupRecords[j].realized_return_pct # NaN
                  /\ cost > 0 => FracEq(GroupRecords[j].realized_return_pct, Frac(pl * 100, cost))
                  /\ GroupRecords[j].result = IF cost > 0 /\ pl < 0 THEN "Loss" ELSE "Win"

\* the holdings half of the claim, which the code meets
C15_HoldingsFillMissingFee ==
    HoldingsComputed => holdings = calculate_holdings(FeesFilled(transactions_df), account_id)

(***************************************************************************)
(* Live valuation and aggregation: calculate_portfolio_metrics,            *)
(* calculate_aggregate_metrics (src/calculations.py:112-262), the currency *)
(* conversions of src/exchange_rate.py, driven as show_overview_page       *)
(* drives them (src/app.py:210-264).                                       *)
(***************************************************************************)
MaxAccounts == 2

Currencies == {"KRW", "USD"}

RECURSIVE FracSumSeq(_)
FracSumSeq(s) == IF s = <<>> THEN Frac(0, 1) ELSE FracAdd(Head(s), FracSumSeq(Tail(s)))

\* the index of a holdings frame, in row order
TickerOrder == <<"T1", "T2">>

\* variant of the selection below without the currency test
CurrencyHoldings_All(holdings_df, cur) ==
    SelectSeq(TickerOrder, LAMBDA tk : tk \in DOMAIN holdings_df)

\* holdings_df[holdings_df['currency'] == cur]: the tickers of that currency
CurrencyHoldings(holdings_df, cur) ==
    SelectSeq(TickerOrder,
              LAMBDA tk : tk \in DOMAIN holdings_df /\ holdings_df[tk].currency = cur)

\* (pl / seed * 100) if seed > 0 else 0
ReturnPct(pl, seed) == IF seed > 0 THEN FracTimes(Div(pl, seed), 100) ELSE Frac(0, 1)

\* lines 149-161 and 163-175: the valuation of one currency
CurrencyMetrics(cur, holdings_df, current_prices, cash, seed) ==
    LET priced == SelectSeq(CurrencyHoldings(holdings_df, cur),
                            LAMBDA tk : tk \in DOMAIN current_prices)
        stock_value ==
            SumSeq(MapSeq(priced, LAMBDA tk : current_prices[tk].price * holdings_df[tk].quantity))
        invested == FracSumSeq(MapSeq(priced, LAMBDA tk : holdings_df[tk].total_cost_basis))
        total_value == stock_value + cash
        pl == total_value - seed
    IN  [stock_value |-> stock_value,
         cash |-> cash,
         total_value |-> total_value,
         pl |-> pl,
         return_pct |-> ReturnPct(pl, seed),
         invested |-> invested]

\* cash stands for the two results of calculate_cash_balance (src/database.py:366-388)
calculate_portfolio_metrics(holdings_df, current_prices, cash, seed_money_krw, seed_money_usd) ==
    [krw |-> CurrencyMetrics("KRW", holdings_df, current_prices, cash.krw, seed_money_krw),
     usd |-> CurrencyMetrics("USD", holdings_df, current_prices, cash.usd, seed_money_usd)]

\* amount / exchange_rate if exchange_rate > 0 else 0
convert_krw_to_usd(krw_amount, rate) == IF rate > 0 THEN Div(krw_amount, rate) ELSE Frac(0, 1)

convert_usd_to_krw(usd_amount, rate) == usd_amount * rate

get_total_value_in_both_currencies(krw_value, usd_value, rate) ==
    [total_krw |-> krw_value + convert_usd_to_krw(usd_value, rate),
     total_usd |-> FracAdd(Frac(usd_value, 1), convert_krw_to_usd(krw_value, rate)),
     exchange_rate |-> rate]

\* variant of the total below that adds the USD amount unconverted
CombinedKrw_NoRate(total_krw, total_usd, rate) == total_krw + total_usd

\* lines 239-240: total_krw + (total_usd * exchange_rate)
CombinedKrw(total_krw, total_usd, rate) == total_krw + (total_usd * rate)

\* variant of the total below that divides without testing the rate
CombinedUsd_Unguarded(total_krw, total_usd, rate) ==
    FracAdd(Frac(total_usd, 1), Div(total_krw, rate))

\* lines 243-244: total_usd + (total_krw / exchange_rate if exchange_rate > 0 else 0)
CombinedUsd(total_krw, total_usd, rate) ==
    FracAdd(Frac(total_usd, 1), IF rate > 0 THEN Div(total_krw, rate) ELSE Frac(0, 1))

\* variant of the return below that leaves out the factor 100
TotalReturnPct_Ratio(total_pl_krw, combined_invested_krw) ==
    IF combined_invested_krw > 0 THEN Div(total_pl_krw, combined_invested_krw) ELSE Frac(0, 1)

\* line 251: (total_pl_krw / combined_invested_krw * 100) if combined_invested_krw > 0 else 0
TotalReturnPct(total_pl_krw, combined_invested_krw) ==
    IF combined_invested_krw > 0
    THEN FracTimes(Div(total_pl_krw, combined_invested_krw), 100) ELSE Frac(0, 1)

calculate_aggregate_metrics(accounts_data, rate) ==
    LET total_krw_value == SumSeq(MapSeq(accounts_data, LAMBDA a : a.metrics.krw.total_value))
        total_usd_value == SumSeq(MapSeq(accounts_data, LAMBDA a : a.metrics.usd.total_value))
        total_krw_invested == SumSeq(MapSeq(accounts_data, LAMBDA a : a.seed_krw))
        total_usd_invested == SumSeq(MapSeq(accounts_data, LAMBDA a : a.seed_usd))
        combined_value_krw == CombinedKrw(total_krw_value, total_usd_value, rate)
        combined_invested_krw == CombinedKrw(total_krw_invested, total_usd_invested, rate)
        combined_value_usd == CombinedUsd(total_krw_value, total_usd_value, rate)
        combined_invested_usd == CombinedUsd(total_krw_invested, total_usd_invested, rate)
        total_pl_krw == combined_value_krw - combined_invested_krw
    IN  [total_value_krw |-> combined_value_krw,
         total_value_usd |-> combined_value_usd,
         total_invested_krw |-> combined_invested_krw,
         total_invested_usd |-> combined_invested_usd,
         total_pl_krw |-> total_pl_krw,
         total_pl_usd |-> FracSub(combined_value_usd, combined_invested_usd),
         total_return_pct |-> TotalReturnPct(total_pl_krw, combined_invested_krw),
         exchange_rate |-> rate]

\* The inputs of one account's valuation.
Holding(q, cur) == [quantity |-> q, currency |-> cur, total_cost_basis |-> Frac(q, 1)]

HoldingsFrames ==
    {<<>>,
     [tk \in {"T1"} |-> Holding(2, "KRW")],
     [tk \in {"T2"} |-> Holding(1, "USD")],
     [tk \in {"T1", "T2"} |-> IF tk = "T1" THEN Holding(1, "KRW") ELSE Holding(2, "USD")]}

Price(p, cur) == [price |-> p, currency |-> cur]

\* every held ticker priced, only T1 priced, nothing priced
PriceLookups ==
    {[tk \in {"T1", "T2"} |-> IF tk = "T1" THEN Price(3, "KRW") ELSE Price(2, "USD")],
     [tk \in {"T1"} |-> Price(3, "KRW")],
     <<>>}

CashBalances ==
    {[krw |-> 0, usd |-> 0], [krw |-> 5, usd |-> 1],
     [krw |-> 1000000, usd |-> 0], [krw |-> 0, usd |-> 1000]}

SeedMoney == {[krw |-> 0, usd |-> 0], [krw |-> 10, usd |-> 0], [krw |-> 10, usd |-> 4]}

\* rates of the page load: no usable rate, a small rate, the default rate
ExchangeRates == {0, 2, 1300}

MetricsInit ==
    /\ transactions_df = <<>>
    /\ account_id = NoFilter
    /\ pc = "metrics"
    /\ holdings = <<>>
    /\ group_keys = <<>>
    /\ sorted_txns = <<>>
    /\ idx = 0
    /\ position_open = FALSE
    /\ current_position = EmptyPosition
    /\ running_qty = 0
    /\ closed_positions_list = <<>>
    /\ exchange_rate \in ExchangeRates
    /\ account_inputs = NoValue
    /\ accounts_metrics = <<>>
    /\ aggregate = NoValue
    /\ both_currencies = NoValue
    /\ IdleExcept({"engine", "metrics"})

\* src/app.py:227-261: value the next account and gather its metrics
AccountMetrics ==
    /\ pc = "metrics"
    /\ Len(accounts_metrics) < MaxAccounts
    /\ \E h \in HoldingsFrames, cp \in PriceLookups, cash \in CashBalances, seed \in SeedMoney :
          /\ account_inputs' = [holdings_df |-> h, current_prices |-> cp, cash |-> cash,
                                seed |-> seed]
          /\ accounts_metrics' =
                Append(accounts_metrics,
                       [metrics |-> calculate_portfolio_metrics(h, cp, cash, seed.krw, seed.usd),
                        seed_krw |-> seed.krw,
                        seed_usd |-> seed.usd])
    /\ UNCHANGED <<engine_vars, view_vars, exchange_rate, aggregate, both_currencies>>

\* src/app.py:264
AggregateMetrics ==
    /\ pc = "metrics"
    /\ accounts_metrics # <<>>
    /\ aggregate' = calculate_aggregate_metrics(accounts_metrics, exchange_rate)
    /\ pc' = "aggregated"
    /\ UNCHANGED <<view_vars, transactions_df, account_id, holdings, group_keys, sorted_txns, idx,
                   position_open, current_position, running_qty, closed_positions_list,
                   exchange_rate, account_inputs, accounts_metrics, both_currencies>>

\* get_total_value_in_both_currencies on the totals of the account last valued
TotalInBothCurrencies ==
    /\ pc = "aggregated"
    /\ LET last == accounts_metrics[Len(accounts_metrics)].metrics
       IN  both_currencies' =
               get_total_value_in_both_currencies(last.krw.total_value, last.usd.total_value,
                                                  exchange_rate)
    /\ pc' = "converted"
    /\ UNCHANGED <<view_vars, transactions_df, account_id, holdings, group_keys, sorted_txns, idx,
                   position_open, current_position, running_qty, closed_positions_list,
                   exchange_rate, account_inputs, accounts_metrics, aggregate>>

MetricsNext ==
    \/ AccountMetrics
    \/ AggregateMetrics
    \/ TotalInBothCurrencies

SpecMetrics == MetricsInit /\ [][MetricsNext]_vars

(***************************************************************************)
(* Reference sums over the gathered accounts.                              *)
(***************************************************************************)
RECURSIVE KrwValueOf(_)
KrwValueOf(k) ==
    IF k = 0 THEN 0 ELSE KrwValueOf(k - 1) + accounts_metrics[k].metrics.krw.total_value

RECURSIVE UsdValueOf(_)
UsdValueOf(k) ==
    IF k = 0 THEN 0 ELSE UsdValueOf(k - 1) + accounts_metrics[k].metrics.usd.total_value

RECURSIVE KrwSeedOf(_)
KrwSeedOf(k) == IF k = 0 THEN 0 ELSE KrwSeedOf(k - 1) + accounts_metrics[k].seed_krw

RECURSIVE UsdSeedOf(_)
UsdSeedOf(k) == IF k = 0 THEN 0 ELSE UsdSeedOf(k - 1) + accounts_metrics[k].seed_usd

NumAccounts == Len(accounts_metrics)

Aggregated == pc \in {"aggregated", "converted"}

\* account k holds only KRW worth v / only USD worth v
PureKrw(k, v) ==
    /\ accounts_metrics[k].metrics.krw.total_value = v
    /\ accounts_metrics[k].metrics.usd.total_value = 0

PureUsd(k, v) ==
    /\ accounts_metrics[k].metrics.usd.total_value = v
    /\ accounts_metrics[k].metrics.krw.total_value = 0

MillionAndThousand ==
    /\ NumAccounts = 2
    /\ exchange_rate = 1300
    /\ \/ PureKrw(1, 1000000) /\ PureUsd(2, 1000)
       \/ PureKrw(2, 1000000) /\ PureUsd(1, 1000)

(***************************************************************************)
(* C8.  calculate_aggregate_metrics sums each currency's total_value and   *)
(* seed independently over all accounts and then applies the rate once:    *)
(* total_value_krw = sum(krw total_value) + sum(usd total_value) * rate,   *)
(* likewise for the invested amount; a pure-KRW account worth 1,000,000    *)
(* and a pure-USD account worth 1,000 at rate 1,300 give 2,300,000.        *)
(***************************************************************************)
C8_CombinedKrw ==
    Aggregated =>
        /\ aggregate.total_value_krw
               = KrwValueOf(NumAccounts) + (UsdValueOf(NumAccounts) * exchange_rate)
        /\ aggregate.total_invested_krw
               = KrwSeedOf(NumAccounts) + (UsdSeedOf(NumAccounts) * exchange_rate)
        /\ MillionAndThousand => aggregate.total_value_krw = 2300000

\* the worked example, and two accounts that both hold both currencies
C8_Witness ==
    /\ Aggregated
    /\ MillionAndThousand
    /\ aggregate.total_value_krw = 2300000

C8_WitnessMixed ==
    /\ Aggregated
    /\ NumAccounts = 2
    /\ exchange_rate = 2
    /\ \A k \in 1..2 : /\ accounts_metrics[k].metrics.krw.total_value > 0
                       /\ accounts_metrics[k].metrics.usd.total_value > 0
                       /\ accounts_metrics[k].seed_usd > 0

(***************************************************************************)
(* C9.  total_value_usd = sum(usd total_value) + sum(krw total_value) /    *)
(* rate when rate > 0; when rate is not > 0 the cross-currency term        *)
(* contributes 0 and no division error occurs; the same holds for the      *)
(* invested amount and for convert_krw_to_usd.                             *)
(***************************************************************************)
\* usd + krw / rate when rate > 0, and usd alone otherwise
UsdTotalRef(krw, usd) ==
    IF exchange_rate > 0
    THEN Frac((usd * exchange_rate) + krw, exchange_rate)
    ELSE Frac(usd, 1)

C9_CombinedUsdGuarded ==
    /\ Aggregated =>
          /\ IsFrac(aggregate.total_value_usd)
          /\ IsFrac(aggregate.total_invested_usd)
          /\ IsFrac(aggregate.total_pl_usd)
          /\ IsFrac(aggregate.total_return_pct)
          /\ FracEq(aggregate.total_value_usd,
                    UsdTotalRef(KrwValueOf(NumAccounts), UsdValueOf(NumAccounts)))
          /\ FracEq(aggregate.total_invested_usd,
                    UsdTotalRef(KrwSeedOf(NumAccounts), UsdSeedOf(NumAccounts)))
    /\ pc = "converted" =>
          /\ IsFrac(both_currencies.total_usd)
          /\ FracEq(both_currencies.total_usd,
                    UsdTotalRef(accounts_metrics[NumAccounts].metrics.krw.total_value,
                                accounts_metrics[NumAccounts].metrics.usd.total_value))

\* KRW amounts converted with no usable rate
C9_Witness ==
    /\ pc = "converted"
    /\ exchange_rate = 0
    /\ KrwValueOf(NumAccounts) > 0
    /\ KrwSeedOf(NumAccounts) > 0
    /\ UsdValueOf(NumAccounts) > 0
    /\ accounts_metrics[NumAccounts].metrics.krw.total_value > 0

\* KRW amounts converted at a positive rate
C9_WitnessPositiveRate ==
    /\ pc = "converted"
    /\ exchange_rate = 2
    /\ KrwValueOf(NumAccounts) = 11
    /\ aggregate.total_value_usd = Frac(13, 2)

(***************************************************************************)
(* C10.  For each currency calculate_portfolio_metrics returns             *)
(* total_value = stock_value + cash, pl = total_value - seed and           *)
(* return_pct = pl / seed * 100, with return_pct = 0 when the seed is 0,   *)
(* where stock_value is the sum of current price * quantity over the       *)
(* holdings of that currency only.                                         *)
(***************************************************************************)
Valued == account_inputs # NoValue

\* price * quantity of ticker tk when it is a priced holding of currency cur, else 0
TickerValue(tk, cur) ==
    IF /\ tk \in DOMAIN account_inputs.holdings_df
       /\ account_inputs.holdings_df[tk].currency = cur
       /\ tk \in DOMAIN account_inputs.current_prices
    THEN account_inputs.current_prices[tk].price * account_inputs.holdings_df[tk].quantity
    ELSE 0

CurrencyMetricsHold(m, cur, cash, seed) ==
    /\ m.stock_value = TickerValue("T1", cur) + TickerValue("T2", cur)
    /\ m.total_value = m.stock_value + cash
    /\ m.pl = m.total_value - seed
    /\ IsFrac(m.return_pct)
    /\ seed # 0 => FracEq(m.return_pct, Frac(m.pl * 100, seed))
    /\ seed = 0 => m.return_pct.num = 0

C10_PortfolioMetrics ==
    Valued =>
        LET m == accounts_metrics[NumAccounts].metrics
        IN  /\ CurrencyMetricsHold(m.krw, "KRW", account_inputs.cash.krw, account_inputs.seed.krw)
            /\ CurrencyMetricsHold(m.usd, "USD", account_inputs.cash.usd, account_inputs.seed.usd)

\* an account holding both currencies, fully priced, with cash, a KRW seed and no USD seed
C10_Witness ==
    /\ Valued
    /\ DOMAIN account_inputs.holdings_df = {"T1", "T2"}
    /\ DOMAIN account_inputs.current_prices = {"T1", "T2"}
    /\ account_inputs.cash = [krw |-> 5, usd |-> 1]
    /\ account_inputs.seed = [krw |-> 10, usd |-> 0]
    /\ accounts_metrics[NumAccounts].metrics.krw.return_pct = Frac(-200, 10)
    /\ accounts_metrics[NumAccounts].metrics.usd.total_value = 5

(***************************************************************************)
(* C20.  calculate_aggregate_metrics returns one total_return_pct, on the  *)
(* KRW basis: total_pl_krw / total_invested_krw * 100 with total_pl_krw =  *)
(* total_value_krw - total_invested_krw, and 0 when total_invested_krw is  *)
(* not positive.                                                           *)
(***************************************************************************)
\* the combined KRW totals, from the accounts' metrics and seeds
ValueKrw == KrwValueOf(NumAccounts) + (UsdValueOf(NumAccounts) * exchange_rate)
InvestedKrw == KrwSeedOf(NumAccounts) + (UsdSeedOf(NumAccounts) * exchange_rate)

C20_TotalReturnPct ==
    Aggregated =>
        /\ aggregate.total_pl_krw = ValueKrw - InvestedKrw
        /\ aggregate.total_pl_krw = aggregate.total_value_krw - aggregate.total_invested_krw
        /\ IF InvestedKrw > 0
           THEN FracEq(aggregate.total_return_pct,
                       Frac((ValueKrw - InvestedKrw) * 100, InvestedKrw))
           ELSE /\ IsFrac(aggregate.total_return_pct)
                /\ aggregate.total_return_pct.num = 0

\* a gain on seeds in both currencies, converted at rate 2
C20_Witness ==
    /\ Aggregated
    /\ exchange_rate = 2
    /\ UsdSeedOf(NumAccounts) > 0
    /\ InvestedKrw > 0
    /\ ValueKrw > InvestedKrw
    /\ aggregate.total_return_pct.num > 0

\* nothing invested although the accounts have value: the return is 0
C20_WitnessNothingInvested ==
    /\ Aggregated
    /\ InvestedKrw = 0
    /\ ValueKrw > 0
    /\ aggregate.total_return_pct.num = 0

(***************************************************************************)
(* The account page (src/app.py:393-432 and 617-629): holdings, the price  *)
(* lookup, calculate_portfolio_metrics and add_current_prices_to_holdings. *)
(* The page passes the account filter, so holdings are keyed by ticker.    *)
(***************************************************************************)
MaxPageTxns == 2

IsFinite(x) == x \notin {NaN, PosInf, NegInf, ZeroDivisionError}

\* x / y on float columns: a zero divisor gives inf, -inf or NaN, never an exception
SeriesDiv(x, y) ==
    IF y.num = 0
    THEN IF x.num = 0 THEN NaN
         ELSE IF (x.num > 0) = (x.den > 0) THEN PosInf ELSE NegInf
    ELSE Frac(x.num * y.den, x.den * y.num)

SeriesTimes(x, k) == IF IsFinite(x) THEN FracTimes(x, k) ELSE x

\* Series.fillna(v): only NaN is replaced
FillNa(x, v) == IF x = NaN THEN v ELSE x

\* src/app.py:114-130: the entry of one requested ticker
PriceEntry(ticker, cached_prices) ==
    [price |-> IF ticker \in DOMAIN cached_prices THEN cached_prices[ticker] ELSE 0,
     currency |-> TickerCurrency(ticker),
     change |-> 0,
     change_pct |-> 0]

\* variant of the warnings below that reports nothing
PriceWarnings_None(clean_tickers, cached_prices) == <<>>

\* src/app.py:121-122: one st.warning per requested ticker that the cache lacks
PriceWarnings(clean_tickers, cached_prices) ==
    SelectSeq(clean_tickers, LAMBDA tk : tk \notin DOMAIN cached_prices)

\* src/app.py:82-130; every ticker of a holdings index is a string
get_current_prices(tickers, cached_prices) ==
    IF tickers = <<>> THEN <<>>
    ELSE [tk \in {tickers[i] : i \in 1..Len(tickers)} |-> PriceEntry(tk, cached_prices)]

\* src/calculations.py:541-575: only the cached tickers get an entry
get_current_prices_from_cache(cached_prices, holdings_df) ==
    IF holdings_df = <<>> THEN <<>>
    ELSE [tk \in DOMAIN holdings_df \cap DOMAIN cached_prices |->
             [price |-> cached_prices[tk], currency |-> holdings_df[tk].currency]]

\* holdings_df.index.tolist()
IndexList(holdings_df) == SelectSeq(TickerOrder, LAMBDA tk : tk \in DOMAIN holdings_df)

\* src/calculations.py:519-536, one row
RowWithPrice(row, current_price) ==
    LET market_value == current_price * row.quantity
        unrealized_pl == FracSub(Frac(market_value, 1), row.total_cost_basis)
    IN  [quantity |-> row.quantity,
         total_cost_basis |-> row.total_cost_basis,
         current_price |-> current_price,
         market_value |-> market_value,
         unrealized_pl |-> unrealized_pl,
         return_pct |->
             FillNa(SeriesTimes(SeriesDiv(unrealized_pl, row.total_cost_basis), 100),
                    Frac(0, 1))]

\* variant of the function below that leaves an unpriced holding at one unit per share
add_current_prices_to_holdings_Unit(holdings_df, prices) ==
    IF holdings_df = <<>> THEN holdings_df
    ELSE [tk \in DOMAIN holdings_df |->
             RowWithPrice(holdings_df[tk],
                          IF tk \in DOMAIN prices THEN prices[tk].price ELSE 1)]

add_current_prices_to_holdings(holdings_df, prices) ==
    IF holdings_df = <<>> THEN holdings_df
    ELSE [tk \in DOMAIN holdings_df |->
             RowWithPrice(holdings_df[tk],
                          IF tk \in DOMAIN prices THEN prices[tk].price ELSE 0)]

\* The rows of account A1: buys of T1 with and without fee, free shares, a sell, buys of T2.
PageTxnLists ==
    LET rows ==
            {Txn("A1", "T1", "BUY", 1, pf[1], q, pf[2]) :
                q \in Quantities, pf \in {<<0, 0>>, <<1, 0>>, <<2, 1>>}}
            \cup {Txn("A1", "T1", "SELL", 2, 1, 1, 0)}
            \cup {Txn("A1", "T2", "BUY", 1, p, 1, 0) : p \in {0, 1}}
    IN UNION {[1..n -> rows] : n \in 0..MaxPageTxns}

\* the stock_prices rows that are active and free of a fetch error
PriceCaches ==
    {<<>>,
     [tk \in {"T1"} |-> 3],
     [tk \in {"T2"} |-> 2],
     [tk \in {"T1", "T2"} |-> IF tk = "T1" THEN 3 ELSE 2]}

AccountPageInit ==
    /\ transactions_df \in PageTxnLists
    /\ account_id = "A1"
    /\ pc = "page"
    /\ price_cache \in PriceCaches
    /\ cash_balance \in {[krw |-> 0, usd |-> 0], [krw |-> 5, usd |-> 1]}
    /\ seed_money \in {[krw |-> 0, usd |-> 0], [krw |-> 10, usd |-> 4]}
    /\ price_lookup = <<>>
    /\ price_warnings = <<>>
    /\ metrics = NoValue
    /\ holdings_with_prices = <<>>
    /\ IdleExcept({"page"})

page_frame == <<metrics_vars, stats_vars, chart_vars, market_vars, script_vars, transactions_df, account_id,
                group_keys, sorted_txns, idx, position_open, current_position, running_qty,
                closed_positions_list, price_cache, cash_balance, seed_money>>

\* src/app.py:412-415
PageHoldings ==
    /\ pc = "page"
    /\ holdings' = calculate_holdings(transactions_df, account_id)
    /\ pc' = "prices"
    /\ UNCHANGED <<page_frame, price_lookup, price_warnings, metrics, holdings_with_prices>>

\* src/app.py:418-422
GetCurrentPrices ==
    /\ pc = "prices"
    /\ IF holdings # <<>>
       THEN /\ price_lookup' = get_current_prices(IndexList(holdings), price_cache)
            /\ price_warnings' = PriceWarnings(IndexList(holdings), price_cache)
       ELSE /\ price_lookup' = <<>>
            /\ price_warnings' = <<>>
    /\ pc' = "priced"
    /\ UNCHANGED <<page_frame, holdings, metrics, holdings_with_prices>>

\* the lookup built by the helper of src/calculations.py instead
GetCurrentPricesFromCache ==
    /\ pc = "prices"
    /\ price_lookup' = get_current_prices_from_cache(price_cache, holdings)
    /\ price_warnings' = <<>>
    /\ pc' = "priced_from_cache"
    /\ UNCHANGED <<page_frame, holdings, metrics, holdings_with_prices>>

\* src/app.py:425-432
PortfolioMetrics ==
    /\ pc \in {"priced", "priced_from_cache"}
    /\ metrics' = calculate_portfolio_metrics(holdings, price_lookup, cash_balance,
                                              seed_money.krw, seed_money.usd)
    /\ pc' = "tab"
    /\ UNCHANGED <<page_frame, holdings, price_lookup, price_warnings, holdings_with_prices>>

\* src/app.py:622-629
AddCurrentPrices ==
    /\ pc = "tab"
    /\ holdings_with_prices' =
          IF holdings # <<>> THEN add_current_prices_to_holdings(holdings, price_lookup)
          ELSE <<>>
    /\ pc' = "shown"
    /\ UNCHANGED <<page_frame, holdings, price_lookup, price_warnings, metrics>>

AccountPageNext ==
    \/ PageHoldings
    \/ GetCurrentPrices
    \/ GetCurrentPricesFromCache
    \/ PortfolioMetrics
    \/ AddCurrentPrices

SpecAccountPage == AccountPageInit /\ [][AccountPageNext]_vars

(***************************************************************************)
(* C11.  A held ticker without a price contributes 0 to stock_value and    *)
(* never aborts the computation: calculate_portfolio_metrics skips a       *)
(* ticker absent from the price lookup, and get_current_prices returns an  *)
(* entry with price 0 and emits a warning for every requested ticker that  *)
(* the price cache lacks, while still returning the other tickers' prices. *)
(***************************************************************************)
\* cached price * quantity of a held ticker of currency cur, 0 without a cached price
CachedValue(tk, cur) ==
    IF tk \in DOMAIN holdings /\ holdings[tk].currency = cur /\ tk \in DOMAIN price_cache
    THEN price_cache[tk] * holdings[tk].quantity
    ELSE 0

Warned(tk) == \E i \in 1..Len(price_warnings) : price_warnings[i] = tk

PageValued == pc \in {"tab", "shown"}

C11_MissingPriceIsZero ==
    /\ pc = "priced" =>
          \A tk \in DOMAIN holdings :
              /\ tk \in DOMAIN price_lookup
              /\ price_lookup[tk].price
                     = IF tk \in DOMAIN price_cache THEN price_cache[tk] ELSE 0
              /\ Warned(tk) <=> tk \notin DOMAIN price_cache
    /\ PageValued =>
          /\ metrics.krw.stock_value = CachedValue("T1", "KRW") + CachedValue("T2", "KRW")
          /\ metrics.usd.stock_value = CachedValue("T1", "USD") + CachedValue("T2", "USD")
          /\ metrics.krw.total_value = metrics.krw.stock_value + cash_balance.krw
          /\ metrics.usd.total_value = metrics.usd.stock_value + cash_balance.usd

\* T1 and T2 held, only T1 cached: T2 gets price 0 and a warning, T1 keeps its price
C11_Witness ==
    /\ PageValued
    /\ DOMAIN holdings = {"T1", "T2"}
    /\ DOMAIN price_cache = {"T1"}
    /\ price_warnings = <<"T2">>
    /\ price_lookup["T2"].price = 0
    /\ price_lookup["T1"].price = 3
    /\ metrics.krw.stock_value > 0
    /\ metrics.usd.stock_value = 0

\* the same holdings valued with a lookup that has no entry for T2
C11_WitnessSkipped ==
    /\ PageValued
    /\ DOMAIN holdings = {"T1", "T2"}
    /\ DOMAIN price_lookup = {"T1"}
    /\ metrics.krw.stock_value > 0
    /\ metrics.usd.stock_value = 0

(***************************************************************************)
(* C12.  In every return-percentage computation (per-currency portfolio    *)
(* return, per-holding unrealized return of add_current_prices_to_holdings;*)
(* the aggregate and the realized return are guarded the same way as the   *)
(* portfolio return) a zero denominator yields a return of exactly 0 and   *)
(* never an error or a non-finite value.                                   *)
(***************************************************************************)
IsZero(x) == IsFinite(x) /\ x.num = 0

C12_ZeroDenominatorReturnsZero ==
    /\ PageValued =>
          /\ IsFinite(metrics.krw.return_pct)
          /\ IsFinite(metrics.usd.return_pct)
          /\ seed_money.krw = 0 => IsZero(metrics.krw.return_pct)
          /\ seed_money.usd = 0 => IsZero(metrics.usd.return_pct)
    /\ pc = "shown" =>
          \A tk \in DOMAIN holdings_with_prices :
              /\ IsFinite(holdings_with_prices[tk].return_pct)
              /\ holdings_with_prices[tk].total_cost_basis.num = 0
                     => IsZero(holdings_with_prices[tk].return_pct)

(***************************************************************************)
(* calculate_win_rate (src/calculations.py:433-492) over the closed        *)
(* positions of the account page (src/app.py:1061-1067).                   *)
(***************************************************************************)
MaxClosed == 4

FracLtZero(x) == ~FracGeqZero(x)

\* variant of the selection below that leaves a return of exactly 0 out
Wins_Strict(df) ==
    SelectSeq(df, LAMBDA r : FracGeqZero(r.realized_return_pct) /\ r.realized_return_pct.num # 0)

\* closed_positions_df[closed_positions_df['realized_return_pct'] >= 0]
Wins(df) == SelectSeq(df, LAMBDA r : FracGeqZero(r.realized_return_pct))

\* closed_positions_df[closed_positions_df['realized_return_pct'] < 0]
Losses(df) == SelectSeq(df, LAMBDA r : FracLtZero(r.realized_return_pct))

\* (win_count / total_trades * 100) if total_trades > 0 else 0
WinRate(win_count, total_trades) ==
    IF total_trades > 0 THEN FracTimes(Div(win_count, total_trades), 100) ELSE Frac(0, 1)

\* rows['realized_return_pct'].mean() if not rows.empty else 0
MeanReturn(rows) ==
    IF rows # <<>>
    THEN LET total == FracSumSeq(MapSeq(rows, LAMBDA r : r.realized_return_pct))
         IN  Frac(total.num, total.den * Len(rows))
    ELSE Frac(0, 1)

calculate_win_rate(df) ==
    IF df = <<>>
    THEN [total_trades |-> 0, wins |-> 0, losses |-> 0, win_rate |-> Frac(0, 1),
          avg_win |-> Frac(0, 1), avg_loss |-> Frac(0, 1), total_pl |-> 0,
          avg_pl |-> Frac(0, 1)]
    ELSE LET total_pl == SumSeq(MapSeq(df, LAMBDA r : r.realized_pl))
         IN  [total_trades |-> Len(df),
              wins |-> Len(Wins(df)),
              losses |-> Len(Losses(df)),
              win_rate |-> WinRate(Len(Wins(df)), Len(df)),
              avg_win |-> MeanReturn(Wins(df)),
              avg_loss |-> MeanReturn(Losses(df)),
              total_pl |-> total_pl,
              avg_pl |-> Div(total_pl, Len(df))]

\* closed-position records with returns of +5 %, -3 %, 0 %, +10 % and -50 %, each the
\* profit on a buy cost of 100
ClosedFrames ==
    LET records ==
            {[realized_pl |-> pl, realized_return_pct |-> RealizedReturnPct(pl, 100),
              result |-> ResultLabel(RealizedReturnPct(pl, 100))] : pl \in {5, -3, 0, 10, -50}}
    IN UNION {[1..n -> records] : n \in 0..MaxClosed}

StatsInit ==
    /\ transactions_df = <<>>
    /\ account_id = "A1"
    /\ pc = "closed_tab"
    /\ closed_positions_df \in ClosedFrames
    /\ win_stats = NoValue
    /\ IdleExcept({"stats"})

\* src/app.py:1067
CalculateWinRate ==
    /\ pc = "closed_tab"
    /\ win_stats' = calculate_win_rate(closed_positions_df)
    /\ pc' = "stats_shown"
    /\ UNCHANGED <<engine_vars_but_pc, metrics_vars, page_vars, chart_vars, market_vars,
                   script_vars, closed_positions_df>>

SpecStats == StatsInit /\ [][CalculateWinRate]_vars

(***************************************************************************)
(* C13.  calculate_win_rate reports wins = number of records with          *)
(* realized_return_pct >= 0 (exactly 0 counts as a win), losses = number   *)
(* with realized_return_pct < 0, win_rate = wins / total * 100 and         *)
(* avg_win / avg_loss as the simple mean within each bucket; returns       *)
(* [+5, -3, 0, +10] give 3 wins, 1 loss and win_rate 75; an empty set      *)
(* gives all zeros.                                                        *)
(***************************************************************************)
ReturnOf(i) == closed_positions_df[i].realized_return_pct

\* return >= 0, taken on the fraction's numerator (denominators are buy costs, positive)
WinIndices == {i \in 1..Len(closed_positions_df) : ReturnOf(i).num >= 0}
LossIndices == {i \in 1..Len(closed_positions_df) : ReturnOf(i).num < 0}

\* sum of the returns of the first k records that lie in bucket B
RECURSIVE BucketSum(_, _)
BucketSum(B, k) ==
    IF k = 0 THEN Frac(0, 1)
    ELSE IF k \in B THEN FracAdd(BucketSum(B, k - 1), ReturnOf(k))
    ELSE BucketSum(B, k - 1)

\* m is the simple mean of bucket B (0 for an empty bucket)
IsMeanOf(m, B) ==
    IF B = {} THEN m.num = 0
    ELSE FracEq(FracTimes(m, Cardinality(B)), BucketSum(B, Len(closed_positions_df)))

\* the returns are +5, -3, 0 and +10 per cent, in this order
ExampleReturns ==
    /\ Len(closed_positions_df) = 4
    /\ \A i \in 1..4 : FracEq(ReturnOf(i), Frac(<<5, -3, 0, 10>>[i], 1))

StatsShown == pc = "stats_shown"

C13_WinRate ==
    StatsShown =>
        /\ win_stats.total_trades = Len(closed_positions_df)
        /\ win_stats.wins = Cardinality(WinIndices)
        /\ win_stats.losses = Cardinality(LossIndices)
        /\ closed_positions_df # <<>> =>
              FracEq(win_stats.win_rate,
                     Frac(win_stats.wins * 100, Len(closed_positions_df)))
        /\ IsMeanOf(win_stats.avg_win, WinIndices)
        /\ IsMeanOf(win_stats.avg_loss, LossIndices)
        /\ ExampleReturns =>
              /\ win_stats.wins = 3
              /\ win_stats.losses = 1
              /\ FracEq(win_stats.win_rate, Frac(75, 1))
        /\ closed_positions_df = <<>> =>
              /\ win_stats.wins = 0 /\ win_stats.losses = 0 /\ win_stats.total_trades = 0
              /\ win_stats.win_rate.num = 0
              /\ win_stats.avg_win.num = 0 /\ win_stats.avg_loss.num = 0
              /\ win_stats.total_pl = 0 /\ win_stats.avg_pl.num = 0

C13_Witness ==
    /\ StatsShown
    /\ ExampleReturns
    /\ win_stats.wins = 3
    /\ win_stats.losses = 1
    /\ FracEq(win_stats.win_rate, Frac(75, 1))
    /\ FracEq(win_stats.avg_win, Frac(5, 1))

C13_WitnessEmpty ==
    /\ StatsShown
    /\ closed_positions_df = <<>>
    /\ win_stats.total_trades = 0

(***************************************************************************)
(* Statistics page (src/app.py show_statistics_page): every series is      *)
(* divided by its own value on the baseline date.                          *)
(***************************************************************************)
MaxChartDays == 3

\* pd.to_datetime('2025-10-13'), as a day of the charted window
BaselineDate == 2

IndexColumns == <<"spx_close", "ndx_close", "kospi_close">>

IndexCategory(col) ==
    CASE col = "spx_close" -> "S&P 500"
      [] col = "ndx_close" -> "NASDAQ 100"
      [] OTHER -> "KOSPI"

AggregateCategory == "Total portfolio"

\* account_names.get(account_id, ...): the account's display name
AccountName(acc) == IF acc = "A1" THEN "Account 1" ELSE "Account 2"

\* row[col] of a row read from the store; a null cell is NaN
Cell(row, col) == IF col \in DOMAIN row THEN row[col] ELSE NaN

\* df[df['snapshot_date'] == d]
RowsOn(df, d) == SelectSeq(df, LAMBDA r : r.snapshot_date = d)

RECURSIVE ConcatAll(_)
ConcatAll(ss) == IF ss = <<>> THEN <<>> ELSE Head(ss) \o ConcatAll(Tail(ss))

RECURSIVE SortedSeqOf(_)
SortedSeqOf(S) ==
    IF S = {} THEN <<>>
    ELSE LET m == CHOOSE x \in S : \A y \in S : x <= y
         IN <<m>> \o SortedSeqOf(S \ {m})

\* Series.unique(): the values in order of first appearance
RECURSIVE UniqueSeq(_)
UniqueSeq(s) ==
    IF s = <<>> THEN <<>>
    ELSE LET front == UniqueSeq(SubSeq(s, 1, Len(s) - 1))
             last == s[Len(s)]
         IN IF \E i \in 1..Len(front) : front[i] = last THEN front ELSE Append(front, last)

Normalize_Inverted(value, baseline) == Frac(baseline, value)

\* row[...] / baseline
Normalize(value, baseline) == Frac(value, baseline)

ChartPoint(date, category, value, baseline) ==
    [snapshot_date |-> date, Category |-> category,
     Normalized_Value |-> Normalize(value, baseline), Actual_Value |-> value]

\* lines 1180-1225: the points of the market indices, row by row and index by index
NormalizeIndices(indices) ==
    LET baseline_indices == RowsOn(indices, BaselineDate)
        RowPoints(row) ==
            ConcatAll([c \in 1..Len(IndexColumns) |->
                LET col == IndexColumns[c]
                    baseline_x == Cell(baseline_indices[1], col)
                IN IF GtZero(baseline_x) /\ ~IsNaN(Cell(row, col))
                   THEN <<ChartPoint(row.snapshot_date, IndexCategory(col), row[col],
                                     baseline_x)>>
                   ELSE <<>>])
    IN IF indices # <<>>
       THEN IF baseline_indices # <<>>
            THEN ConcatAll([i \in 1..Len(indices) |-> RowPoints(indices[i])])
            ELSE <<>>
       ELSE <<>>

\* lines 1236-1257: one account, its total_value summed over the currencies of each date
NormalizeAccount(snapshots, acc) ==
    LET account_data == SelectSeq(snapshots, LAMBDA r : r.account_id = acc)
        account_by_date ==
            [d \in {account_data[i].snapshot_date : i \in 1..Len(account_data)} |->
                SumSeq(MapSeq(RowsOn(account_data, d), LAMBDA r : r.total_value))]
        dates == SortedSeqOf(DOMAIN account_by_date)
    IN IF BaselineDate \in DOMAIN account_by_date
       THEN LET baseline_value == account_by_date[BaselineDate]
            IN IF baseline_value > 0
               THEN [i \in 1..Len(dates) |->
                        ChartPoint(dates[i], AccountName(acc), account_by_date[dates[i]],
                                   baseline_value)]
               ELSE <<>>
       ELSE <<>>

NormalizeAccounts(snapshots) ==
    IF snapshots # <<>>
    THEN LET ids == UniqueSeq(MapSeq(snapshots, LAMBDA r : r.account_id))
         IN ConcatAll([i \in 1..Len(ids) |-> NormalizeAccount(snapshots, ids[i])])
    ELSE <<>>

NormalizeAggregate(history) ==
    IF history # <<>>
    THEN LET baseline_agg == RowsOn(history, BaselineDate)
         IN IF baseline_agg # <<>>
            THEN LET baseline_total == baseline_agg[1].total_value
                 IN IF baseline_total > 0
                    THEN [i \in 1..Len(history) |->
                             ChartPoint(history[i].snapshot_date, AggregateCategory,
                                        history[i].total_value, baseline_total)]
                    ELSE <<>>
            ELSE <<>>
    ELSE <<>>

\* ---- inputs: the three tables, rows in date order ----
\* market_indices: a day has a row or none; its closes are 0, 100 or 150 for the S&P 500 and
\* 100 for the other two indices, any of them null
IndexFrames ==
    LET NullColumns(row, cols) == [f \in DOMAIN row \ cols |-> row[f]]
        WithDate(row, d) == [f \in DOMAIN row |-> IF f = "snapshot_date" THEN d ELSE row[f]]
        closes ==
            {NullColumns([snapshot_date |-> 0, spx_close |-> s, ndx_close |-> 100,
                          kospi_close |-> 100], nulls) :
                s \in {0, 100, 150}, nulls \in SUBSET {"spx_close", "ndx_close", "kospi_close"}}
        days == {<<>>} \cup {<<r>> : r \in closes}
    IN {ConcatAll([d \in 1..MaxChartDays |->
                      IF c[d] = <<>> THEN <<>> ELSE <<WithDate(c[d][1], d)>>]) :
           c \in [1..MaxChartDays -> days]}

SnapshotRow(acc, d, cur, v) ==
    [account_id |-> acc, snapshot_date |-> d, currency |-> cur, total_value |-> v]

\* portfolio_snapshots: account A1 has, day by day, no row, a KRW row, or a KRW and a USD row;
\* account A2 has no snapshots or the same KRW row every day
SnapshotFrames ==
    LET currencies == <<"KRW", "USD">>
        values == {<<>>, <<0>>, <<100>>, <<150>>, <<100, 50>>}
        DayRows(acc, d, vs) == [j \in 1..Len(vs) |-> SnapshotRow(acc, d, currencies[j], vs[j])]
    IN {ConcatAll([d \in 1..MaxChartDays |->
                      DayRows("A1", d, c[d]) \o DayRows("A2", d, a2)]) :
           c \in [1..MaxChartDays -> values], a2 \in {<<>>, <<100>>}}

\* get_aggregate_portfolio_history: a day has a row worth 0, 100 or 150, or none
AggregateFrames ==
    LET days == {<<>>, <<0>>, <<100>>, <<150>>}
    IN {ConcatAll([d \in 1..MaxChartDays |->
                      [j \in 1..Len(c[d]) |->
                          [snapshot_date |-> d, total_value |-> c[d][j]]]]) :
           c \in [1..MaxChartDays -> days]}

\* one table varies freely while each of the other two is empty or an example series, worth
\* 100 on the baseline date and 150 on every other day
StatisticsInputs ==
    LET value(d) == IF d = BaselineDate THEN 100 ELSE 150
        indices ==
            [d \in 1..MaxChartDays |->
                [snapshot_date |-> d, spx_close |-> value(d), ndx_close |-> 100,
                 kospi_close |-> 100]]
        snapshots == [d \in 1..MaxChartDays |-> SnapshotRow("A1", d, "KRW", value(d))]
        history == [d \in 1..MaxChartDays |-> [snapshot_date |-> d, total_value |-> value(d)]]
    IN (IndexFrames \X {<<>>, snapshots} \X {<<>>, history})
       \cup ({<<>>, indices} \X SnapshotFrames \X {<<>>, history})
       \cup ({<<>>, indices} \X {<<>>, snapshots} \X AggregateFrames)

StatisticsInit ==
    /\ transactions_df = <<>>
    /\ account_id = NoFilter
    /\ pc = "statistics"
    /\ IdleExcept({"chart"})
    /\ \E tables \in StatisticsInputs :
          /\ market_indices = tables[1]
          /\ portfolio_snapshots = tables[2]
          /\ aggregate_history = tables[3]
    /\ normalized_data = <<>>

\* src/app.py:1147-1274
ShowStatisticsPage ==
    /\ pc = "statistics"
    /\ normalized_data' =
          IF market_indices = <<>> /\ aggregate_history = <<>>
          THEN <<>>
          ELSE NormalizeIndices(market_indices) \o NormalizeAccounts(portfolio_snapshots)
                  \o NormalizeAggregate(aggregate_history)
    /\ pc' = "charted"
    /\ UNCHANGED <<engine_vars_but_pc, metrics_vars, page_vars, stats_vars, market_vars,
                   script_vars, market_indices, portfolio_snapshots, aggregate_history>>

SpecStatistics == StatisticsInit /\ [][ShowStatisticsPage]_vars

\* ---- the series of the chart, read from the tables ----
IndexRowsOf(col, d) ==
    {i \in 1..Len(market_indices) :
        market_indices[i].snapshot_date = d /\ col \in DOMAIN market_indices[i]}

AccountRowsOf(acc, d) ==
    {i \in 1..Len(portfolio_snapshots) :
        /\ portfolio_snapshots[i].account_id = acc
        /\ portfolio_snapshots[i].snapshot_date = d}

AggregateRowsOf(d) ==
    {i \in 1..Len(aggregate_history) : aggregate_history[i].snapshot_date = d}

RECURSIVE TotalOver(_)
TotalOver(rows) ==
    IF rows = {} THEN 0
    ELSE LET i == CHOOSE r \in rows : TRUE
         IN portfolio_snapshots[i].total_value + TotalOver(rows \ {i})

SeriesNames ==
    {IndexCategory(IndexColumns[c]) : c \in 1..Len(IndexColumns)}
    \cup {AccountName(acc) : acc \in {"A1", "A2"}} \cup {AggregateCategory}

ColumnOf(category) ==
    CHOOSE col \in {IndexColumns[c] : c \in 1..Len(IndexColumns)} : IndexCategory(col) = category

AccountOf(category) == CHOOSE acc \in {"A1", "A2"} : AccountName(acc) = category

IsIndexSeries(category) == \E c \in 1..Len(IndexColumns) : IndexCategory(IndexColumns[c]) = category

\* the series has an observation on day d
Observed(category, d) ==
    IF IsIndexSeries(category) THEN IndexRowsOf(ColumnOf(category), d) # {}
    ELSE IF category = AggregateCategory THEN AggregateRowsOf(d) # {}
    ELSE AccountRowsOf(AccountOf(category), d) # {}

\* the value of the series on a day it was observed
SeriesValue(category, d) ==
    IF IsIndexSeries(category)
    THEN market_indices[CHOOSE i \in IndexRowsOf(ColumnOf(category), d) : TRUE][ColumnOf(category)]
    ELSE IF category = AggregateCategory
    THEN aggregate_history[CHOOSE i \in AggregateRowsOf(d) : TRUE].total_value
    ELSE TotalOver(AccountRowsOf(AccountOf(category), d))

PointsOf(category) ==
    {i \in 1..Len(normalized_data) : normalized_data[i].Category = category}

Charted == pc = "charted"

(***************************************************************************)
(* C16.  In the statistics view every plotted point is the day's value of  *)
(* its series divided by the same series' value on the baseline date       *)
(* 2025-10-13: a point on the baseline date is 1.0, and a day's value 150  *)
(* against a baseline value 100 is plotted as 1.5.                         *)
(***************************************************************************)
C16_NormalizedToBaseline ==
    Charted =>
        \A i \in 1..Len(normalized_data) :
            LET p == normalized_data[i]
            IN /\ Observed(p.Category, p.snapshot_date)
               /\ Observed(p.Category, BaselineDate)
               /\ SeriesValue(p.Category, BaselineDate) # 0
               /\ p.Actual_Value = SeriesValue(p.Category, p.snapshot_date)
               /\ FracEq(p.Normalized_Value,
                         Frac(SeriesValue(p.Category, p.snapshot_date),
                              SeriesValue(p.Category, BaselineDate)))
               /\ p.snapshot_date = BaselineDate => FracEq(p.Normalized_Value, Frac(1, 1))
               /\ (/\ SeriesValue(p.Category, p.snapshot_date) = 150
                   /\ SeriesValue(p.Category, BaselineDate) = 100)
                     => FracEq(p.Normalized_Value, Frac(3, 2))

\* an account's series is plotted at 1.5 for 150 against its baseline 100, and at 1.0 on the baseline
C16_Witness ==
    /\ Charted
    /\ \E i, j \in PointsOf(AccountName("A1")) :
          /\ normalized_data[i].snapshot_date # BaselineDate
          /\ normalized_data[i].Actual_Value = 150
          /\ FracEq(normalized_data[i].Normalized_Value, Frac(3, 2))
          /\ normalized_data[j].snapshot_date = BaselineDate
          /\ normalized_data[j].Actual_Value = 100
          /\ FracEq(normalized_data[j].Normalized_Value, Frac(1, 1))

\* a day with a KRW and a USD row is plotted with the sum of the two
C16_WitnessSummed ==
    /\ Charted
    /\ \E i \in PointsOf(AccountName("A1")) :
          /\ Cardinality(AccountRowsOf("A1", normalized_data[i].snapshot_date)) = 2
          /\ normalized_data[i].Actual_Value = 150
          /\ FracEq(normalized_data[i].Normalized_Value, Frac(3, 2))

C16_WitnessIndex ==
    /\ Charted
    /\ \E i \in PointsOf("S&P 500") :
          /\ normalized_data[i].Actual_Value = 150
          /\ FracEq(normalized_data[i].Normalized_Value, Frac(3, 2))

(***************************************************************************)
(* C17.  A series with no observation on the baseline date contributes no  *)
(* point to the chart, and the other series are still plotted: every       *)
(* observation of a series whose baseline value is positive has its point. *)
(***************************************************************************)
Plotted(category) ==
    \A d \in 1..MaxChartDays :
        Observed(category, d) =>
            \E i \in PointsOf(category) : normalized_data[i].snapshot_date = d

C17_NoBaselineNoPoints ==
    Charted =>
        \A category \in SeriesNames :
            /\ ~Observed(category, BaselineDate) => PointsOf(category) = {}
            /\ (/\ Observed(category, BaselineDate)
                /\ SeriesValue(category, BaselineDate) > 0) => Plotted(category)

\* a series without a baseline observation is never plotted
C17_DroppedWithoutBaseline ==
    Charted =>
        \A category \in SeriesNames :
            ~Observed(category, BaselineDate) => PointsOf(category) = {}

\* once an index or the aggregate history has a row, every series with a baseline is plotted
C17_OthersPlottedUnlessEarlyReturn ==
    (Charted /\ ~(market_indices = <<>> /\ aggregate_history = <<>>)) =>
        \A category \in SeriesNames :
            (/\ Observed(category, BaselineDate)
             /\ SeriesValue(category, BaselineDate) > 0) => Plotted(category)

(***************************************************************************)
(* Market summary (src/market_data.py get_market_today, with               *)
(* src/exchange_rate.py get_usd_krw_rate): five sources, each fetched in   *)
(* its own try block.                                                      *)
(***************************************************************************)
\* what the feed answers to one request: an exception, or the closes of the period (oldest first)
Raised == [raised |-> TRUE, closes |-> <<>>]
Answer(closes) == [raised |-> FALSE, closes |-> closes]

\* the rate get_usd_krw_rate falls back to
DefaultRate == 1300

LastClose(o) == o.closes[Len(o.closes)]
PreviousClose(o) == o.closes[Len(o.closes) - 1]

\* ((current - previous) / previous) * 100
ChangePct(current, previous) == Frac((current - previous) * 100, previous)

\* str.title() of the descriptions the sentiment source returns
Title(s) ==
    CASE s = "fear" -> "Fear"
      [] s = "extreme fear" -> "Extreme Fear"
      [] OTHER -> s

ErrorEntry(price) == [price |-> price, change_pct |-> Frac(0, 1), error |-> TRUE]

\* int(float(fg[0])), on a score given in tenths
FgiValue(tenths) == tenths \div 10

FgiErrorEntry == [value |-> 50, classification |-> "Neutral", error |-> TRUE]

\* one request to the feed, as it is remembered: what was asked and what came back
FeedRequest(symbol, o) == [symbol |-> symbol, outcome |-> o]

\* market_data[key] = entry
Put(data, key, entry) ==
    [k \in DOMAIN data \cup {key} |-> IF k = key THEN entry ELSE data[k]]

\* the body of one index block (lines 28-40)
IndexEntry(o) ==
    IF o.raised THEN ErrorEntry(0)
    ELSE IF Len(o.closes) >= 2
    THEN IF PreviousClose(o) = 0 THEN ErrorEntry(0)   \* ZeroDivisionError, caught
         ELSE [price |-> LastClose(o),
               change_pct |-> ChangePct(LastClose(o), PreviousClose(o)),
               error |-> FALSE]
    ELSE ErrorEntry(0)

\* one round of the loop over tickers_to_try ends with success = True
RateUsable(o) ==
    /\ ~o.raised
    /\ Len(o.closes) >= 1
    /\ 1000 <= LastClose(o) /\ LastClose(o) <= 2000
    /\ Len(o.closes) >= 2 => PreviousClose(o) # 0

RateEntry(o) ==
    [price |-> LastClose(o),
     change_pct |-> IF Len(o.closes) >= 2 THEN ChangePct(LastClose(o), PreviousClose(o))
                    ELSE Frac(0, 1),
     error |-> FALSE]

\* get_usd_krw_rate: the cached rate, or the feed's, or the default; with the requests it made
get_usd_krw_rate(cache, history, info) ==
    IF cache # <<>> THEN [rate |-> cache[1], requests |-> <<>>]
    ELSE IF history.raised
    THEN [rate |-> DefaultRate, requests |-> <<FeedRequest("KRW=X", history)>>]
    ELSE IF history.closes # <<>>
    THEN [rate |-> LastClose(history), requests |-> <<FeedRequest("KRW=X", history)>>]
    ELSE [rate |-> IF info.raised \/ info.closes = <<>> THEN DefaultRate ELSE LastClose(info),
          requests |-> <<FeedRequest("KRW=X", history), FeedRequest("KRW=X", info)>>]

\* variant of the entry below that takes the rate without the range check
FallbackEntry_Unchecked(current_rate) ==
    [price |-> current_rate, change_pct |-> Frac(0, 1), error |-> FALSE]

\* lines 104-114: the entry made from the rate of get_usd_krw_rate
FallbackEntry(current_rate) ==
    IF current_rate # 0 /\ 1000 <= current_rate /\ current_rate <= 2000
    THEN [price |-> current_rate, change_pct |-> Frac(0, 1), error |-> FALSE]
    ELSE ErrorEntry(DefaultRate)

MarketInit ==
    /\ transactions_df = <<>>
    /\ account_id = NoFilter
    /\ pc = "sp500"
    /\ IdleExcept({"market"})
    /\ market_data = <<>>
    /\ feed_requests = <<>>
    /\ rate_cache \in {<<>>, <<1350>>}   \* not cached, or a rate fetched within the last 60 s

market_frame == <<engine_vars_but_pc, metrics_vars, page_vars, stats_vars, chart_vars, script_vars>>

\* src/market_data.py:27-70: the three index blocks, one after the other.  history(period="2d")
\* raises, or has no row, one row, two rows, or two rows after a close of 0.
FetchIndex ==
    /\ \E block \in {<<"sp500", "^GSPC", "nasdaq">>, <<"nasdaq", "^NDX", "kospi">>,
                      <<"kospi", "^KS11", "usdkrw">>} :
          /\ pc = block[1]
          /\ \E o \in {Raised, Answer(<<>>), Answer(<<110>>), Answer(<<100, 110>>),
                        Answer(<<0, 110>>)} :
                /\ market_data' = Put(market_data, block[1], IndexEntry(o))
                /\ feed_requests' = Append(feed_requests, FeedRequest(block[2], o))
          /\ pc' = block[3]
    /\ UNCHANGED <<market_frame, rate_cache>>

\* history(period="5d") of a USD/KRW ticker; 900 lies outside the accepted range
RateOutcomes ==
    {Raised, Answer(<<>>), Answer(<<1350>>), Answer(<<1340, 1350>>), Answer(<<0, 1350>>),
     Answer(<<900>>)}

\* src/market_data.py:72-119
FetchUsdKrw ==
    /\ pc = "usdkrw"
    /\ \E o1 \in RateOutcomes, o2 \in RateOutcomes,
          \* history(period="1d") and ticker.info (no regularMarketPrice, or a price)
          o3 \in {Raised, Answer(<<>>), Answer(<<1350>>), Answer(<<900>>)},
          o4 \in {Raised, Answer(<<>>), Answer(<<1350>>)} :
          LET first == FeedRequest("KRW=X", o1)
              second == FeedRequest("USDKRW=X", o2)
              fallback == get_usd_krw_rate(rate_cache, o3, o4)
          IN IF RateUsable(o1)
             THEN /\ market_data' = Put(market_data, "usdkrw", RateEntry(o1))
                  /\ feed_requests' = Append(feed_requests, first)
                  /\ UNCHANGED rate_cache
             ELSE IF RateUsable(o2)
             THEN /\ market_data' = Put(market_data, "usdkrw", RateEntry(o2))
                  /\ feed_requests' = feed_requests \o <<first, second>>
                  /\ UNCHANGED rate_cache
             ELSE /\ market_data' = Put(market_data, "usdkrw", FallbackEntry(fallback.rate))
                  /\ feed_requests' = feed_requests \o <<first, second>> \o fallback.requests
                  /\ rate_cache' = <<fallback.rate>>
    /\ pc' = "fgi"
    /\ UNCHANGED market_frame

\* src/market_data.py:121-134
FetchFgi ==
    /\ pc = "fgi"
    \* fear_and_greed.get() raises, or answers (score in tenths, description)
    /\ \E o \in {Raised, Answer(<<257, "fear">>), Answer(<<104, "extreme fear">>)} :
          /\ market_data' =
                Put(market_data, "fgi",
                    IF o.raised THEN FgiErrorEntry
                    ELSE [value |-> FgiValue(o.closes[1]), classification |-> Title(o.closes[2]),
                          error |-> FALSE])
          /\ feed_requests' = Append(feed_requests, FeedRequest("fear_and_greed", o))
    /\ pc' = "market_done"
    /\ UNCHANGED <<market_frame, rate_cache>>

MarketNext == FetchIndex \/ FetchUsdKrw \/ FetchFgi

SpecMarket == MarketInit /\ [][MarketNext]_vars

\* ---- the five sources, read from what was requested ----
MarketSources == {"sp500", "nasdaq", "kospi", "usdkrw", "fgi"}

\* the quote a feed symbol stands for
QuoteOf(symbol) ==
    CASE symbol = "^GSPC" -> "sp500"
      [] symbol = "^NDX" -> "nasdaq"
      [] symbol = "^KS11" -> "kospi"
      [] symbol = "fear_and_greed" -> "fgi"
      [] OTHER -> "usdkrw"

RequestsOf(source) ==
    {i \in 1..Len(feed_requests) : QuoteOf(feed_requests[i].symbol) = source}

\* the request gave nothing to make an entry from: an exception, too few closes, a previous
\* close of 0 to compare with, or a rate outside the accepted range
Failed(r) ==
    LET o == r.outcome
        quote == QuoteOf(r.symbol)
    IN \/ o.raised
       \/ o.closes = <<>>
       \/ quote \in {"sp500", "nasdaq", "kospi"} /\ Len(o.closes) < 2
       \/ quote # "fgi" /\ Len(o.closes) >= 2 /\ o.closes[Len(o.closes) - 1] = 0
       \/ quote = "usdkrw" /\ (o.closes[Len(o.closes)] < 1000 \/ o.closes[Len(o.closes)] > 2000)

\* the source failed: the feed was asked, and no request for its quote gave a usable answer
SourceFailed(source) ==
    /\ RequestsOf(source) # {}
    /\ \A i \in RequestsOf(source) : Failed(feed_requests[i])
    /\ source = "usdkrw" => Cardinality(RequestsOf(source)) >= 3   \* no cached rate was served

IsPlaceholder(source, entry) ==
    IF source = "fgi" THEN entry.value = 50 /\ entry.classification = "Neutral"
    ELSE IF source = "usdkrw" THEN entry.price = DefaultRate /\ entry.change_pct.num = 0
    ELSE entry.price = 0 /\ entry.change_pct.num = 0

\* the answer the entry of a source that did not fail is made from
UsableRequest(source) == CHOOSE i \in RequestsOf(source) : ~Failed(feed_requests[i])

OwnEntry(source) ==
    LET o == feed_requests[UsableRequest(source)].outcome
    IN IF source = "fgi"
       THEN market_data[source].value = o.closes[1] \div 10
       ELSE market_data[source].price = LastClose(o)

MarketDone == pc = "market_done"

(***************************************************************************)
(* C18.  get_market_today never raises and returns an entry for each of    *)
(* its five sources; a source that failed has an entry with error = true   *)
(* and a placeholder value, and the entry of a source depends only on that *)
(* source: a source that answered has its own value whatever the others    *)
(* did.                                                                    *)
(***************************************************************************)
C18_PerSourceErrorEntry ==
    MarketDone =>
        /\ DOMAIN market_data = MarketSources
        /\ \A source \in MarketSources :
              /\ SourceFailed(source) =>
                    /\ market_data[source].error = TRUE
                    /\ IsPlaceholder(source, market_data[source])
              /\ (\E i \in RequestsOf(source) : ~Failed(feed_requests[i])) => OwnEntry(source)

\* every source but USD/KRW flags its failure
C18_OtherSourcesFlagFailure ==
    MarketDone =>
        /\ DOMAIN market_data = MarketSources
        /\ \A source \in MarketSources \ {"usdkrw"} :
              /\ SourceFailed(source) =>
                    /\ market_data[source].error = TRUE
                    /\ IsPlaceholder(source, market_data[source])
              /\ (\E i \in RequestsOf(source) : ~Failed(feed_requests[i])) => OwnEntry(source)
        /\ (\E i \in RequestsOf("usdkrw") : ~Failed(feed_requests[i])) => OwnEntry("usdkrw")

(***************************************************************************)
(* C19.  Nothing is retried: once a request to the feed for a quote has    *)
(* failed, the same quote is not requested from the feed again within the  *)
(* page load.                                                              *)
(***************************************************************************)
C19_NoRetry ==
    \A i, j \in 1..Len(feed_requests) :
        (i < j /\ Failed(feed_requests[i])) =>
            QuoteOf(feed_requests[j].symbol) # QuoteOf(feed_requests[i].symbol)

\* the index and sentiment sources are asked once each
C19_IndexSourcesAskedOnce ==
    \A source \in MarketSources \ {"usdkrw"} : Cardinality(RequestsOf(source)) <= 1

\* the very symbol that failed is asked again
C19_SameSymbolAskedAgain ==
    \E i, j \in 1..Len(feed_requests) :
        /\ i < j
        /\ feed_requests[i].outcome.raised
        /\ feed_requests[j].symbol = feed_requests[i].symbol

C21_WitnessUnfiltered ==
    /\ pc = "done"
    /\ account_id = NoFilter
    /\ closed_positions_list # <<>>
    /\ \E i, j \in 1..Len(transactions_df) :
          i < j /\ transactions_df[i].transaction_date > transactions_df[j].transaction_date

(***************************************************************************)
(* C24.  While calculate_closed_positions walks a group, the running       *)
(* quantity equals the bought minus the sold quantity of the transactions  *)
(* accumulated in the current episode.  Every processed buy and every      *)
(* processed sell is counted either in the current episode or in exactly   *)
(* one emitted record of the group, and the shares a record reports as     *)
(* traded (its bought quantity) equal the quantity its episode sold.       *)
(***************************************************************************)
QtyOf(txns) == SumSeq(MapSeq(txns, LAMBDA t : t.quantity))

ProcessedOf(type) ==
    SelectSeq(SubSeq(sorted_txns, 1, idx), LAMBDA t : t.transaction_type = type)

RecordedShares == SumSeq(MapSeq(GroupRecords, LAMBDA r : r.total_shares_traded))

C24_RunningQuantity ==
    InGroupLoop =>
        /\ running_qty = QtyOf(current_position.buy_txns) - QtyOf(current_position.sell_txns)
        /\ RecordedShares + QtyOf(current_position.buy_txns) = QtyOf(ProcessedOf("BUY"))
        /\ RecordedShares + QtyOf(current_position.sell_txns) = QtyOf(ProcessedOf("SELL"))

\* a record was emitted and the pair was bought again: the new episode starts from zero
C24_Witness ==
    /\ InGroupLoop
    /\ Len(GroupRecords) = 1
    /\ Len(current_position.buy_txns) = 1
    /\ running_qty > 0

\* an episode that sold before it bought closes with the early sell counted in its record
C24_WitnessOversold ==
    /\ InGroupLoop
    /\ Len(GroupRecords) = 1
    /\ sorted_txns[1].transaction_type = "SELL"
    /\ GroupRecords[1].total_shares_traded = 2

(***************************************************************************)
(* C25.  When a pair has fully closed one or more episodes and is bought   *)
(* again, the avg_price that calculate_holdings reports for it is the cost *)
(* of every BUY ever recorded for the pair, the closed episodes' buys      *)
(* included, divided by the quantity of all those buys, and its            *)
(* total_cost_basis is that average times the quantity still held.         *)
(***************************************************************************)
ClosedRecordsOf(acc, tk) ==
    SelectSeq(closed_positions_list,
              LAMBDA r : r.ticker = tk
                         /\ (IF account_id = NoFilter THEN r.account_id = acc ELSE acc = account_id))

C25_AverageOverAllBuys ==
    pc = "done" =>
        \A acc \in Accounts, tk \in Tickers :
            (Held(acc, tk) /\ ClosedRecordsOf(acc, tk) # <<>>) =>
                LET h == HoldingOf(acc, tk)
                    all_cost == PairBuyCost(transactions_df, acc, tk)
                    all_qty == PairBuyQty(transactions_df, acc, tk)
                IN  /\ FracEq(h.avg_price, Frac(all_cost, all_qty))
                    /\ FracEq(h.total_cost_basis, Frac(all_cost * h.quantity, all_qty))

\* one free share bought and sold, then two shares bought at 1 and one of them sold: the
\* average over the three shares ever bought is 2/3, not the open episode's price 1
C25_Witness ==
    /\ pc = "done"
    /\ Held("A1", "T1")
    /\ Len(ClosedRecordsOf("A1", "T1")) = 1
    /\ ClosedRecordsOf("A1", "T1")[1].total_shares_traded = 1
    /\ HoldingOf("A1", "T1").quantity = 1
    /\ FracEq(HoldingOf("A1", "T1").avg_price, Frac(2, 3))

(***************************************************************************)
(* C27.  The USD/KRW quote is resolved in a fixed order: KRW=X, then        *)
(* USDKRW=X, then get_usd_krw_rate, then the default 1300.  A later step is *)
(* tried only when every earlier one failed or gave a rate outside          *)
(* [1000, 2000], and the entry comes from the first step that did not.      *)
(* In every outcome the usdkrw entry has error = false and a price within   *)
(* [1000, 2000], or error = true and the price 1300.                        *)
(***************************************************************************)
UsdKrwRequests == SelectSeq(feed_requests, LAMBDA r : QuoteOf(r.symbol) = "usdkrw")

\* the symbols asked, in order: the two tickers of the block, then get_usd_krw_rate's
\* history and info of KRW=X
UsdKrwOrder == <<"KRW=X", "USDKRW=X", "KRW=X", "KRW=X">>

InRange(rate) == 1000 <= rate /\ rate <= 2000

C27_UsdKrwFallbackOrder ==
    "usdkrw" \in DOMAIN market_data =>
        LET reqs == UsdKrwRequests
            entry == market_data["usdkrw"]
        IN  /\ Len(reqs) \in 1..4
            /\ \A k \in 1..Len(reqs) : reqs[k].symbol = UsdKrwOrder[k]
            /\ \A k \in 2..Len(reqs) : \A j \in 1..(k - 1) : Failed(reqs[j])
            /\ IF ~Failed(reqs[1])
               THEN Len(reqs) = 1 /\ entry = RateEntry(reqs[1].outcome)
               ELSE /\ Len(reqs) >= 2
                    /\ IF ~Failed(reqs[2])
                       THEN Len(reqs) = 2 /\ entry = RateEntry(reqs[2].outcome)
                       ELSE /\ rate_cache # <<>>
                            /\ IF InRange(rate_cache[1])
                               THEN entry.price = rate_cache[1] /\ entry.error = FALSE
                               ELSE entry.price = DefaultRate /\ entry.error = TRUE
            /\ \/ entry.error = FALSE /\ InRange(entry.price)
               \/ entry.error = TRUE /\ entry.price = DefaultRate

\* both tickers failed and get_usd_krw_rate fetched a rate outside the range: the default
C27_Witness ==
    /\ "usdkrw" \in DOMAIN market_data
    /\ Len(UsdKrwRequests) = 3
    /\ UsdKrwRequests[3].outcome = Answer(<<900>>)
    /\ market_data["usdkrw"].error = TRUE
    /\ market_data["usdkrw"].price = DefaultRate

\* KRW=X was out of range and USDKRW=X answered
C27_WitnessSecondTicker ==
    /\ "usdkrw" \in DOMAIN market_data
    /\ Len(UsdKrwRequests) = 2
    /\ UsdKrwRequests[1].outcome = Answer(<<900>>)
    /\ market_data["usdkrw"] = RateEntry(Answer(<<1340, 1350>>))

\* both tickers failed and a rate cached by get_usd_krw_rate was served
C27_WitnessCachedRate ==
    /\ "usdkrw" \in DOMAIN market_data
    /\ Len(UsdKrwRequests) = 2
    /\ \A k \in 1..2 : Failed(UsdKrwRequests[k])
    /\ market_data["usdkrw"].price = 1350
    /\ market_data["usdkrw"].error = FALSE

(***************************************************************************)
(* C28.  For every list of account metrics and every rate > 0 the two      *)
(* currency views of the aggregate agree: total_value_krw =                 *)
(* total_value_usd * rate, total_invested_krw = total_invested_usd * rate  *)
(* and total_pl_krw = total_pl_usd * rate; and total_value_krw is the sum   *)
(* over the accounts of the per-account KRW totals of the overview page.   *)
(***************************************************************************)
\* src/app.py:311, the KRW total on an account's card: krw_val + (usd_val * exchange_rate)
total_in_krw(acc, rate) == acc.metrics.krw.total_value + (acc.metrics.usd.total_value * rate)

\* x * rate for a fraction, cancelling a denominator equal to the rate
TimesRate(x, rate) == IF x.den = rate THEN Frac(x.num, 1) ELSE FracTimes(x, rate)

C28_CurrencyViewsAgree ==
    (Aggregated /\ exchange_rate > 0) =>
        /\ FracEq(Frac(aggregate.total_value_krw, 1),
                  TimesRate(aggregate.total_value_usd, exchange_rate))
        /\ FracEq(Frac(aggregate.total_invested_krw, 1),
                  TimesRate(aggregate.total_invested_usd, exchange_rate))
        /\ FracEq(Frac(aggregate.total_pl_krw, 1),
                  TimesRate(aggregate.total_pl_usd, exchange_rate))
        /\ aggregate.total_value_krw
               = SumSeq(MapSeq(accounts_metrics, LAMBDA a : total_in_krw(a, exchange_rate)))

\* two accounts that each hold both currencies, a loss overall, at the default rate
C28_Witness ==
    /\ Aggregated
    /\ exchange_rate = 1300
    /\ NumAccounts = 2
    /\ \A k \in 1..2 : /\ accounts_metrics[k].metrics.krw.total_value > 0
                       /\ accounts_metrics[k].metrics.usd.total_value > 0
    /\ aggregate.total_invested_usd.num > 0
    /\ aggregate.total_pl_krw < 0

(***************************************************************************)
(* C30.  For the same holdings and the same price lookup, the market_value *)
(* that add_current_prices_to_holdings assigns to the holdings of a        *)
(* currency adds up to the stock_value calculate_portfolio_metrics reports *)
(* for that currency, also when held tickers are absent from the lookup.   *)
(***************************************************************************)
MarketValueOf(tk, cur) ==
    IF tk \in DOMAIN holdings_with_prices /\ holdings[tk].currency = cur
    THEN holdings_with_prices[tk].market_value
    ELSE 0

C30_MarketValueSumsToStockValue ==
    pc = "shown" =>
        /\ DOMAIN holdings_with_prices = DOMAIN holdings
        /\ metrics.krw.stock_value = MarketValueOf("T1", "KRW") + MarketValueOf("T2", "KRW")
        /\ metrics.usd.stock_value = MarketValueOf("T1", "USD") + MarketValueOf("T2", "USD")

\* T1 and T2 held and only T1 in the lookup: T2 is valued at 0 on both sides
C30_Witness ==
    /\ pc = "shown"
    /\ DOMAIN holdings = {"T1", "T2"}
    /\ DOMAIN price_lookup = {"T1"}
    /\ holdings_with_prices["T2"].market_value = 0
    /\ holdings_with_prices["T1"].market_value > 0
    /\ metrics.krw.stock_value + metrics.usd.stock_value
           = holdings_with_prices["T1"].market_value

\* both held tickers priced, one of each currency
C30_WitnessAllPriced ==
    /\ pc = "shown"
    /\ DOMAIN holdings = {"T1", "T2"}
    /\ DOMAIN price_lookup = {"T1", "T2"}
    /\ metrics.krw.stock_value > 0
    /\ metrics.usd.stock_value > 0

(***************************************************************************)
(* The backfill script (src/backfill_market_indices.py): four historical   *)
(* series are fetched, merged on their date, stripped of weekend rows and  *)
(* sent to the store one date at a time.  The script is run twice over the *)
(* same date range against a feed that answers the same both times.        *)
(***************************************************************************)
MaxBackfillDay == 7

\* the date range of the run; day 0 is a Monday, so day 4 is a Friday and day 7 a Monday
BackfillDates == 4..MaxBackfillDay

\* Series.dt.dayofweek: Monday = 0 ... Sunday = 6
DayOfWeek(date) == date % 7

\* variant of the test below that only knows Sunday
IsWeekend_SundayOnly(date) == DayOfWeek(date) = 6

\* lines 148-150: DayOfWeek.isin([5, 6])
IsWeekend(date) == DayOfWeek(date) \in {5, 6}

SeriesColumns == {"spx_close", "ndx_close", "kospi_close", "usd_krw_rate"}

\* lines 117-120: the ticker fetched for a column of the merged frame
SeriesTicker(column) ==
    CASE column = "spx_close" -> "^GSPC"
      [] column = "ndx_close" -> "^NDX"
      [] column = "kospi_close" -> "^KS11"
      [] column = "usd_krw_rate" -> "KRW=X"

\* lines 181-187: the parameter a column is passed as
ColumnParam(column) ==
    CASE column = "spx_close" -> "p_spx_close"
      [] column = "ndx_close" -> "p_ndx_close"
      [] column = "kospi_close" -> "p_kospi_close"
      [] column = "usd_krw_rate" -> "p_usd_krw_rate"

\* lines 62-85: an exception or an empty download gives an empty frame, else Date -> Close
fetch_historical_index(answer) ==
    IF answer.raised \/ answer.closes = <<>> THEN <<>> ELSE answer.closes

\* pandas raises KeyError 'Date' at the first merge (lines 126-145) into an S&P 500 frame
\* that has no columns, and at line 148 when nothing was merged into it
MergeRaises(frames) == frames["spx_close"] = <<>>

\* lines 124-145: the outer merge on Date of the frames that are not empty, in date order.
\* A cell the merge leaves without a value is NaN (the row has no such field).
MergedFrame(frames) ==
    LET columns == {c \in SeriesColumns : frames[c] # <<>>}
        dates == UNION {DOMAIN frames[c] : c \in columns}
        row(d) == [f \in {"Date"} \cup {c \in columns : d \in DOMAIN frames[c]} |->
                      IF f = "Date" THEN d ELSE frames[f][d]]
        ordered == SortedSeqOf(dates)
    IN  [i \in 1..Len(ordered) |-> row(ordered[i])]

\* lines 173-187: the arguments of one call; a parameter passed as None is left out
UpsertParams(row) ==
    LET passed == {c \in SeriesColumns : ~IsNaN(Cell(row, c))}
    IN  [p \in {"p_snapshot_date"} \cup {ColumnParam(c) : c \in passed} |->
            IF p = "p_snapshot_date" THEN row["Date"]
            ELSE row[CHOOSE c \in passed : ColumnParam(c) = p]]

\* variant of the procedure below that adds the new close to the stored one
upsert_market_indices_Accumulate(table, params, rule) ==
    LET date == params["p_snapshot_date"]
        new == {c \in SeriesColumns : ColumnParam(c) \in DOMAIN params}
        old == IF date \in DOMAIN table THEN DOMAIN table[date] \ {"snapshot_date"} ELSE {}
        row == [c \in {"snapshot_date"} \cup new \cup old |->
                   IF c = "snapshot_date" THEN date
                   ELSE (IF c \in new THEN params[ColumnParam(c)] ELSE 0)
                        + (IF c \in old THEN table[date][c] ELSE 0)]
    IN  [d \in DOMAIN table \cup {date} |-> IF d = date THEN row ELSE table[d]]

\* The store's upsert_market_indices procedure: one row per snapshot date, each column
\* COALESCE of the new and the stored cell, in the order the rule says.
upsert_market_indices(table, params, rule) ==
    LET date == params["p_snapshot_date"]
        new == {c \in SeriesColumns : ColumnParam(c) \in DOMAIN params}
        old == IF date \in DOMAIN table THEN DOMAIN table[date] \ {"snapshot_date"} ELSE {}
        new_first == rule = "new_first"
        row == [c \in {"snapshot_date"} \cup new \cup old |->
                   IF c = "snapshot_date" THEN date
                   ELSE IF c \in new /\ (new_first \/ c \notin old) THEN params[ColumnParam(c)]
                   ELSE table[date][c]]
    IN  [d \in DOMAIN table \cup {date} |-> IF d = date THEN row ELSE table[d]]

\* the closes a ticker has on the dates S; each series has its own level
Closes(level, S) == [d \in S |-> level + d]

BackfillInit ==
    /\ transactions_df = <<>>
    /\ account_id = NoFilter
    /\ pc = "fetch"
    /\ IdleExcept({"backfill"})
    /\ LET weekdays == {d \in BackfillDates : DayOfWeek(d) < 5}
       IN  \E spx \in {Raised, Answer(<<>>), Answer(Closes(100, weekdays)),
                       Answer(Closes(100, {4}))},
              ndx \in {Raised, Answer(<<>>), Answer(Closes(200, weekdays))},
              kospi \in {Raised, Answer(<<>>), Answer(Closes(300, weekdays))},
              \* the currency pair is also quoted on weekend dates
              krw \in {Raised, Answer(<<>>), Answer(Closes(1300, BackfillDates)),
                       Answer(Closes(1300, {4}))} :
              index_feed = [t \in {"^GSPC", "^NDX", "^KS11", "KRW=X"} |->
                               CASE t = "^GSPC" -> spx
                                 [] t = "^NDX" -> ndx
                                 [] t = "^KS11" -> kospi
                                 [] t = "KRW=X" -> krw]
    /\ dry_run \in BOOLEAN
    /\ upsert_rule \in {"new_first", "stored_first"}
    /\ series_data = NoValue
    /\ merged = <<>>
    /\ upsert_calls = <<>>
    /\ stats = NoValue
    \* the table is empty, or holds a row of the range written earlier
    /\ stored_indices \in {<<>>, [d \in {4} |-> [snapshot_date |-> 4, spx_close |-> 1,
                                                 kospi_close |-> 1]]}
    /\ run = 1
    /\ first_run_indices = <<>>

backfill_frame == <<engine_vars_but_pc, metrics_vars, page_vars, stats_vars, chart_vars,
                    market_vars, cache_vars, call_vars>>

\* lines 115-120
FetchHistoricalData ==
    /\ pc = "fetch"
    /\ series_data' = [c \in SeriesColumns |-> fetch_historical_index(index_feed[SeriesTicker(c)])]
    /\ pc' = "merge"
    /\ UNCHANGED <<backfill_frame, index_feed, dry_run, upsert_rule, merged, upsert_calls, stats,
                   stored_indices, run, first_run_indices>>

\* lines 122-168: merge, drop the weekend rows, count; a dry run returns here
MergeData ==
    /\ pc = "merge"
    /\ IF MergeRaises(series_data)
       THEN /\ pc' = "aborted"
            /\ UNCHANGED <<merged, stats>>
       ELSE LET all == MergedFrame(series_data)
                kept == SelectSeq(all, LAMBDA r : ~IsWeekend(r["Date"]))
            IN  /\ merged' = kept
                /\ stats' = [total_days |-> Len(kept), inserted |-> 0, updated |-> 0,
                             skipped_weekends |-> Len(all) - Len(kept), errors |-> 0]
                /\ pc' = IF dry_run THEN "returned" ELSE "store"
    /\ UNCHANGED <<backfill_frame, index_feed, dry_run, upsert_rule, series_data, upsert_calls,
                   stored_indices, run, first_run_indices>>

\* the calls this run has made
CallsOfRun(r) == SelectSeq(upsert_calls, LAMBDA c : c.run = r)

\* lines 172-200: the call for the next row; it answers with or without data, or raises
UpsertRow ==
    /\ pc = "store"
    /\ Len(CallsOfRun(run)) < Len(merged)
    /\ \E outcome \in {"data", "no_data", "raised"} :
          LET params == UpsertParams(merged[Len(CallsOfRun(run)) + 1])
          IN  /\ upsert_calls' = Append(upsert_calls, [run |-> run, params |-> params,
                                                       outcome |-> outcome])
              /\ stored_indices' =
                    IF outcome = "raised" THEN stored_indices
                    ELSE upsert_market_indices(stored_indices, params, upsert_rule)
              /\ stats' = [stats EXCEPT
                              !.inserted = IF outcome = "data" THEN @ + 1 ELSE @,
                              !.errors = IF outcome = "raised" THEN @ + 1 ELSE @]
    /\ UNCHANGED <<backfill_frame, pc, index_feed, dry_run, upsert_rule, series_data, merged, run,
                   first_run_indices>>

\* line 202
ReturnStats ==
    /\ pc = "store"
    /\ Len(CallsOfRun(run)) = Len(merged)
    /\ pc' = "returned"
    /\ UNCHANGED <<backfill_frame, backfill_vars>>

\* lines 205-266: the script is started again with the same arguments
RunAgain ==
    /\ pc \in {"returned", "aborted"}
    /\ run = 1
    /\ run' = 2
    /\ first_run_indices' = stored_indices
    /\ series_data' = NoValue
    /\ merged' = <<>>
    /\ stats' = NoValue
    /\ pc' = "fetch"
    /\ UNCHANGED <<backfill_frame, index_feed, dry_run, upsert_rule, upsert_calls, stored_indices>>

BackfillNext ==
    \/ FetchHistoricalData
    \/ MergeData
    \/ UpsertRow
    \/ ReturnStats
    \/ RunAgain

SpecBackfill == BackfillInit /\ [][BackfillNext]_vars

(***************************************************************************)
(* C22.  The backfill script issues no upsert for a Saturday or Sunday     *)
(* date and at most one upsert per remaining date in a run, keyed by that  *)
(* date; and it is idempotent per date: after a second run over the same   *)
(* range with the same feed data, the row of every date the first run      *)
(* stored is as the first run left it, and so is the whole table when the  *)
(* first run stored every date.                                            *)
(***************************************************************************)
CallDate(call) == call.params["p_snapshot_date"]

Stored(call) == call.outcome # "raised"

SecondRunReturned == pc = "returned" /\ run = 2

C22_WeekendsSkippedIdempotent ==
    /\ \A i \in 1..Len(upsert_calls) : DayOfWeek(CallDate(upsert_calls[i])) \notin {5, 6}
    /\ \A i, j \in 1..Len(upsert_calls) :
          (i < j /\ upsert_calls[i].run = upsert_calls[j].run) =>
              CallDate(upsert_calls[i]) # CallDate(upsert_calls[j])
    /\ SecondRunReturned =>
          LET first == CallsOfRun(1)
          IN  /\ \A i \in 1..Len(first) :
                    Stored(first[i]) =>
                        /\ CallDate(first[i]) \in DOMAIN stored_indices
                        /\ stored_indices[CallDate(first[i])]
                               = first_run_indices[CallDate(first[i])]
              /\ (\A i \in 1..Len(first) : Stored(first[i])) =>
                    stored_indices = first_run_indices

\* two runs that each stored Friday and Monday, over a feed that also quotes the weekend
\* and a table that already held Friday's row
C22_Witness ==
    /\ SecondRunReturned
    /\ stats.skipped_weekends = 2
    /\ Len(CallsOfRun(1)) = 2
    /\ Len(CallsOfRun(2)) = 2
    /\ \A i \in 1..Len(upsert_calls) : Stored(upsert_calls[i])
    /\ 4 \in DOMAIN first_run_indices
    /\ "kospi_close" \in DOMAIN first_run_indices[4]
    /\ first_run_indices[4]["kospi_close"] = 1
    /\ first_run_indices[4]["spx_close"] = 104
    /\ stored_indices = first_run_indices

(***************************************************************************)
(* C29.  As claimed: when the fetch of any one of the four series fails or *)
(* returns no data, the run does not abort, and the remaining series are   *)
(* upserted for every non-weekend date they have, the missing series       *)
(* passed as null.                                                         *)
(***************************************************************************)
FetchFailed(c) ==
    index_feed[SeriesTicker(c)].raised \/ index_feed[SeriesTicker(c)].closes = <<>>

\* the feed has a close of series c on date d
Available(c, d) == ~FetchFailed(c) /\ d \in DOMAIN index_feed[SeriesTicker(c)].closes

\* every non-weekend date some series has a close on was sent to the store in this run,
\* with the closes the feed has and nothing for the others
RemainingSeriesUpserted ==
    \A d \in BackfillDates :
        (DayOfWeek(d) < 5 /\ \E c \in SeriesColumns : Available(c, d)) =>
            \E i \in 1..Len(CallsOfRun(run)) :
                LET params == CallsOfRun(run)[i].params
                IN  /\ params["p_snapshot_date"] = d
                    /\ DOMAIN params = {"p_snapshot_date"}
                                          \cup {ColumnParam(c) : c \in {x \in SeriesColumns :
                                                                          Available(x, d)}}
                    /\ \A c \in SeriesColumns :
                          Available(c, d) =>
                              params[ColumnParam(c)] = index_feed[SeriesTicker(c)].closes[d]

C29_FailedSeriesDoesNotAbort ==
    (Cardinality({c \in SeriesColumns : FetchFailed(c)}) = 1) =>
        /\ pc # "aborted"
        /\ (pc = "returned" /\ ~dry_run) => RemainingSeriesUpserted

\* a failed fetch of NASDAQ 100, KOSPI or USD/KRW is tolerated as claimed, as long as the
\* S&P 500 series was fetched
C29_FailureAfterFirstSeriesTolerated ==
    ((\E c \in SeriesColumns : FetchFailed(c)) /\ ~FetchFailed("spx_close")) =>
        /\ pc # "aborted"
        /\ (pc = "returned" /\ ~dry_run) => RemainingSeriesUpserted

\* a run that lacks the S&P 500 series aborts before any upsert
C29_AbortsWithoutFirstSeries ==
    (FetchFailed("spx_close") /\ pc \notin {"fetch", "merge"}) =>
        /\ pc = "aborted"
        /\ upsert_calls = <<>>

(***************************************************************************)
(* The cached feed reads: get_usd_krw_rate (src/exchange_rate.py:10),      *)
(* get_market_today (src/market_data.py:10), get_historical_data           *)
(* (src/app.py:134) and get_historical_usd_krw_rate                         *)
(* (src/exchange_rate.py:40), each behind st.cache_data with its own ttl.  *)
(* Time passes between calls and the feed comes and goes.                  *)
(***************************************************************************)
MaxCachedCalls == 3
MaxTicks == 2

\* the quote of the feed when the server starts; it moves by one with every tick
FirstQuote == DefaultRate + 50

\* the ttl of the decorator, in seconds
TtlOf(function) ==
    CASE function = "get_usd_krw_rate" -> 60
      [] function = "get_market_today" -> 300
      [] function = "get_historical_data" -> 900
      [] function = "get_historical_usd_krw_rate" -> 3600

\* variant of the test below that never lets an entry expire
Fresh_Forever(stored_at, ttl, now) == TRUE

\* st.cache_data(ttl=...): an entry is served for ttl seconds after it was stored
Fresh(stored_at, ttl, now) == now - stored_at < ttl

\* the entries are keyed by the function and its arguments
CacheKey(function, args) == <<function, args>>

Hit(cache, key, now) ==
    key \in DOMAIN cache /\ Fresh(cache[key].stored_at, TtlOf(key[1]), now)

\* what history() of the feed gives at this moment: the last two closes, or an exception
FeedHistory(feed) ==
    IF feed.up THEN Answer(<<feed.quote - 1, feed.quote>>) ELSE Raised

\* one call as it is remembered: when, whether the feed was contacted, what came back
CachedCall(key, now, feed, contacted, value) ==
    [key |-> key, at |-> now, feed_up |-> feed.up, contacted |-> contacted, value |-> value]

\* a call through the decorator: the entry while it is fresh, else the body's result
\* (computed = [value, cache, calls] of the body), which is stored
cache_data(cache, key, now, feed, computed) ==
    IF Hit(cache, key, now)
    THEN [value |-> cache[key].value, cache |-> cache,
          calls |-> <<CachedCall(key, now, feed, FALSE, cache[key].value)>>]
    ELSE [value |-> computed.value,
          cache |-> Put(computed.cache, key, [value |-> computed.value, stored_at |-> now]),
          calls |-> computed.calls \o <<CachedCall(key, now, feed, TRUE, computed.value)>>]

\* src/exchange_rate.py:10-37
cached_get_usd_krw_rate(cache, now, feed) ==
    cache_data(cache, CacheKey("get_usd_krw_rate", <<>>), now, feed,
               [value |-> get_usd_krw_rate(<<>>, FeedHistory(feed), FeedHistory(feed)).rate,
                cache |-> cache, calls |-> <<>>])

\* src/exchange_rate.py:40-79: the closest close, or the current rate when there is none
get_historical_usd_krw_rate(cache, now, feed, date) ==
    LET current == cached_get_usd_krw_rate(cache, now, feed)
    IN  cache_data(cache, CacheKey("get_historical_usd_krw_rate", <<date>>), now, feed,
                   IF feed.up
                   THEN [value |-> LastClose(FeedHistory(feed)), cache |-> cache, calls |-> <<>>]
                   ELSE [value |-> current.value, cache |-> current.cache,
                         calls |-> current.calls])

\* src/app.py:134-143: the history frame, or an empty frame after an exception
get_historical_data(cache, now, feed, ticker, period) ==
    cache_data(cache, CacheKey("get_historical_data", <<ticker, period>>), now, feed,
               [value |-> FeedHistory(feed).closes, cache |-> cache, calls |-> <<>>])

\* src/market_data.py:10-141: the five entries; get_usd_krw_rate is only asked when no
\* ticker of the currency pair gave a usable rate
get_market_today(cache, now, feed) ==
    LET o == FeedHistory(feed)
        current == cached_get_usd_krw_rate(cache, now, feed)
        entries(rate) ==
            [source \in {"sp500", "nasdaq", "kospi", "usdkrw", "fgi"} |->
                CASE source = "usdkrw" -> IF RateUsable(o) THEN RateEntry(o) ELSE FallbackEntry(rate)
                  [] source = "fgi" ->
                        IF feed.up
                        THEN [value |-> FgiValue(257), classification |-> Title("fear"),
                              error |-> FALSE]
                        ELSE FgiErrorEntry
                  [] OTHER -> IndexEntry(o)]
    IN  cache_data(cache, CacheKey("get_market_today", <<>>), now, feed,
                   IF RateUsable(o)
                   THEN [value |-> entries(0), cache |-> cache, calls |-> <<>>]
                   ELSE [value |-> entries(current.value), cache |-> current.cache,
                         calls |-> current.calls])

CacheInit ==
    /\ transactions_df = <<>>
    /\ account_id = NoFilter
    /\ pc = "serving"
    /\ IdleExcept({"cache"})
    /\ clock = 0
    /\ market_feed \in {[up |-> TRUE, quote |-> FirstQuote], [up |-> FALSE, quote |-> FirstQuote]}
    /\ data_cache = <<>>
    /\ cached_calls = <<>>

cache_frame == <<engine_vars, metrics_vars, page_vars, stats_vars, chart_vars, market_vars,
                 backfill_vars, call_vars>>

\* time passes: within the shortest window, or past the first, second or third one;
\* meanwhile the feed may have come or gone, and its quote has moved
Tick ==
    /\ market_feed.quote < FirstQuote + MaxTicks
    /\ \E seconds \in {30, 240, 600, 3000}, up \in BOOLEAN :
          /\ clock' = clock + seconds
          /\ market_feed' = [up |-> up, quote |-> market_feed.quote + 1]
    /\ UNCHANGED <<cache_frame, data_cache, cached_calls>>

\* the account page asks for the current rate (src/app.py:435)
CallUsdKrwRate ==
    LET result == cached_get_usd_krw_rate(data_cache, clock, market_feed)
    IN  /\ Len(cached_calls) < MaxCachedCalls
        /\ data_cache' = result.cache
        /\ cached_calls' = cached_calls \o result.calls
        /\ UNCHANGED <<cache_frame, clock, market_feed>>

\* the overview page asks for the market summary (src/app.py:153)
CallMarketToday ==
    LET result == get_market_today(data_cache, clock, market_feed)
    IN  /\ Len(cached_calls) < MaxCachedCalls
        /\ data_cache' = result.cache
        /\ cached_calls' = cached_calls \o result.calls
        /\ UNCHANGED <<cache_frame, clock, market_feed>>

\* a ticker's one-year history is asked for
CallHistoricalData ==
    \E ticker \in Tickers :
        LET result == get_historical_data(data_cache, clock, market_feed, ticker, "1y")
        IN  /\ Len(cached_calls) < MaxCachedCalls
            /\ data_cache' = result.cache
            /\ cached_calls' = cached_calls \o result.calls
            /\ UNCHANGED <<cache_frame, clock, market_feed>>

\* a past transaction is converted at the rate of its date (src/app.py:1412)
CallHistoricalUsdKrwRate ==
    \E date \in {"2025-01-02", "2025-01-03"} :
        LET result == get_historical_usd_krw_rate(data_cache, clock, market_feed, date)
        IN  /\ Len(cached_calls) < MaxCachedCalls
            /\ data_cache' = result.cache
            /\ cached_calls' = cached_calls \o result.calls
            /\ UNCHANGED <<cache_frame, clock, market_feed>>

CacheNext ==
    \/ Tick
    \/ CallUsdKrwRate
    \/ CallMarketToday
    \/ CallHistoricalData
    \/ CallHistoricalUsdKrwRate

SpecCache == CacheInit /\ [][CacheNext]_vars

(***************************************************************************)
(* C23.  For each cached feed read (get_usd_krw_rate 60 s,                  *)
(* get_market_today 300 s, get_historical_data 900 s,                       *)
(* get_historical_usd_krw_rate 3600 s, each keyed by its arguments): a call *)
(* made inside the window after a successful fetch returns the value that   *)
(* fetch gave without contacting the feed, whatever the feed would answer   *)
(* at that moment, and the first call after the window contacts the feed    *)
(* again.                                                                   *)
(***************************************************************************)
\* the calls before call j that went to the feed for the same function and arguments
FetchesBefore(j) ==
    {i \in 1..(j - 1) : cached_calls[i].key = cached_calls[j].key /\ cached_calls[i].contacted}

LastFetchBefore(j) == CHOOSE i \in FetchesBefore(j) : \A k \in FetchesBefore(j) : k <= i

AgeAt(j) == cached_calls[j].at - cached_calls[LastFetchBefore(j)].at

C23_ServedFromCacheWithinWindow ==
    \A j \in 1..Len(cached_calls) :
        IF FetchesBefore(j) = {} THEN cached_calls[j].contacted
        ELSE LET fetch == cached_calls[LastFetchBefore(j)]
                 window == TtlOf(cached_calls[j].key[1])
             IN  /\ (fetch.feed_up /\ AgeAt(j) < window) =>
                        /\ ~cached_calls[j].contacted
                        /\ cached_calls[j].value = fetch.value
                 /\ AgeAt(j) > window => cached_calls[j].contacted

\* the rate fetched while the feed answered is served 30 s later although the feed is
\* down, and fetched again 240 s after that
C23_Witness ==
    /\ Len(cached_calls) = 3
    /\ \A j \in 1..3 : cached_calls[j].key = CacheKey("get_usd_krw_rate", <<>>)
    /\ cached_calls[1].contacted /\ cached_calls[1].feed_up
    /\ cached_calls[2].at = 30
    /\ ~cached_calls[2].feed_up
    /\ ~cached_calls[2].contacted
    /\ cached_calls[2].value = FirstQuote
    /\ cached_calls[3].at = 270
    /\ cached_calls[3].contacted

\* the same two dates of the historical rate: one served from the cache 3000 s later,
\* the other, asked for the first time, fetched
C23_WitnessKeyedByArguments ==
    /\ Len(cached_calls) = 3
    /\ cached_calls[1].key = CacheKey("get_historical_usd_krw_rate", <<"2025-01-02">>)
    /\ cached_calls[2].key = cached_calls[1].key
    /\ cached_calls[3].key = CacheKey("get_historical_usd_krw_rate", <<"2025-01-03">>)
    /\ cached_calls[1].feed_up
    /\ cached_calls[2].at = 3000
    /\ ~cached_calls[2].contacted
    /\ cached_calls[3].contacted
    /\ cached_calls[3].value # cached_calls[2].value

\* the market summary is served for 240 s and fetched again after 600 s
C23_WitnessMarketToday ==
    /\ Len(cached_calls) = 3
    /\ \A j \in 1..3 : cached_calls[j].key = CacheKey("get_market_today", <<>>)
    /\ cached_calls[1].feed_up
    /\ cached_calls[2].at = 240 /\ ~cached_calls[2].contacted
    /\ cached_calls[3].at = 840 /\ cached_calls[3].contacted

(***************************************************************************)
(* The two functions applied twice to one frame, with and without the      *)
(* account filter (src/calculations.py:10-109 and 265-372).                *)
(***************************************************************************)
ThisCall ==
    [account_id |-> account_id, holdings |-> holdings,
     closed_positions |-> closed_positions_list]

\* the functions are called again on the frame of the call before: without the filter
\* after a call for one account, for one account after a call without the filter
CallWithOtherFilter ==
    /\ pc = "done"
    /\ previous_call = NoValue
    /\ previous_call' = ThisCall
    /\ account_id' \in IF account_id = NoFilter THEN Accounts ELSE {NoFilter}
    /\ pc' = "holdings"
    /\ holdings' = <<>>
    /\ group_keys' = <<>>
    /\ sorted_txns' = <<>>
    /\ idx' = 0
    /\ position_open' = FALSE
    /\ current_position' = EmptyPosition
    /\ running_qty' = 0
    /\ closed_positions_list' = <<>>
    /\ UNCHANGED <<metrics_vars, page_vars, stats_vars, chart_vars, market_vars, backfill_vars,
                   cache_vars, sort_log, transactions_df>>

FilterNext ==
    \/ CalculateHoldings
    \/ BeginClosedPositions
    \/ NextGroup
    \/ ProcessBuy
    \/ ProcessSell
    \/ EndGroup
    \/ ReturnClosedPositions
    \/ CallWithOtherFilter

SpecFilter == Init /\ [][FilterNext]_vars

BothCallsReturned == pc = "done" /\ previous_call # NoValue

FilteredCall == IF account_id = NoFilter THEN previous_call ELSE ThisCall

UnfilteredCall == IF account_id = NoFilter THEN ThisCall ELSE previous_call

\* the three figures of a holding the claim compares
HoldingFigures(h) ==
    [quantity |-> h.quantity, avg_price |-> h.avg_price,
     total_cost_basis |-> h.total_cost_basis]

\* the records of one account among those of a call without filter, as a call with the
\* filter writes them (it leaves the account out of the record)
RecordsOfAccount(records, acc) ==
    MapSeq(SelectSeq(records, LAMBDA r : r.account_id = acc),
           LAMBDA r : [r EXCEPT !.account_id = Absent])

Occurrences(records, r) == Cardinality({i \in 1..Len(records) : records[i] = r})

\* C26: for every frame T and account a, the holdings of calculate_holdings(T, a) are
\* exactly the holdings of account a in calculate_holdings(T, no filter), with the same
\* quantity, avg_price and cost basis, and the records of calculate_closed_positions(T, a)
\* are exactly the records of account a in calculate_closed_positions(T, no filter).
C26_FilterCommutes ==
    BothCallsReturned =>
        LET a == FilteredCall.account_id
            filtered == FilteredCall.holdings
            unfiltered == UnfilteredCall.holdings
            closed == FilteredCall.closed_positions
            closed_of_a == RecordsOfAccount(UnfilteredCall.closed_positions, a)
        IN  /\ DOMAIN filtered = {k[2] : k \in {h \in DOMAIN unfiltered : h[1] = a}}
            /\ \A tk \in DOMAIN filtered :
                   HoldingFigures(filtered[tk]) = HoldingFigures(unfiltered[<<a, tk>>])
            /\ Len(closed) = Len(closed_of_a)
            /\ \A i \in 1..Len(closed) :
                   Occurrences(closed, closed[i]) = Occurrences(closed_of_a, closed[i])

\* both calls returned on a frame that mixes two accounts: account A1 closed a position
\* and account A2 holds a ticker
C26_Witness ==
    /\ BothCallsReturned
    /\ FilteredCall.account_id = "A1"
    /\ FilteredCall.closed_positions # <<>>
    /\ \E k \in DOMAIN UnfilteredCall.holdings : k[1] = "A2"

\* the filtered call came first and sorted a group with two rows of one date, which the
\* unfiltered call sorted again
C26_WitnessSameDay ==
    /\ BothCallsReturned
    /\ account_id = NoFilter
    /\ previous_call.closed_positions # <<>>
    /\ \E e \in sort_log :
           /\ Len(e[1]) >= 2
           /\ e[1][1].transaction_date = e[1][2].transaction_date
           /\ e[1][1].transaction_type # e[1][2].transaction_type
    /\ \E i \in 1..Len(transactions_df) : transactions_df[i].account_id = "A2"

\* the filter names the second account, and both accounts hold a ticker
C26_WitnessSecondAccount ==
    /\ BothCallsReturned
    /\ account_id = "A2"
    /\ holdings # <<>>
    /\ \E k \in DOMAIN previous_call.holdings : k[1] = "A1"

====
